---- MODULE Spec2Model ----
(***************************************************************************)
(* Ledger core of the daily-payout backend (src/eu.js, src/eu_fixed.js):   *)
(* account balances (saldo), purchases, the Transaction and SystemLog      *)
(* tables, and the request handlers that change them.  Every handler is    *)
(* split where the code awaits the store outside prisma.$transaction: the  *)
(* read of the account (or of the due set) is one step, the transaction    *)
(* body is one atomic step.                                                *)
(* Time is counted in hours.                                               *)
(***************************************************************************)
EXTENDS Integers, Sequences, FiniteSets, TLC

\* ------------------------------------------------------------------ bounds
MaxArrivals == 3     \* requests and bulk items admitted in one behaviour
MaxDays == 3         \* the clock stops advancing after this many days

\* ------------------------------------------------------- program constants
InitialSaldo == 500  \* saldo: saldo || 500 at registration
H24 == 24            \* nextPayout.setHours(nextPayout.getHours() + 24)
DefaultDailyReturn == 13
DefaultCycleDays == 30
CheckinReward == 10  \* POST /api/checkin
MinDeposit == 1000   \* if (amount < 1000)
TaskCheckinReward == 5
Level1Pct == 25
Level2Pct == 2
Level3Pct == 1

\* ------------------------------------------------------------ input sets
Accounts == 1..6             \* account u + 1 was invited by account u
Users == {1, 2}              \* the accounts that send requests
Workers == {1, 2}            \* requests that may be in flight at once
ClockSteps == {12, 24}
MaxClock == MaxDays * H24
PurchaseAmounts == {0, 300, 600}
WithdrawAmounts == {0, 200, 600}
AdminAmounts == {0, 200, 600}
SetBalances == {-1, 150}
CycleDayChoices == {0, 1, 3} \* 0: the field is missing from the request body
BulkActions == {"add", "deduct", "set", "other"}
OverdrawAmounts == {200, 600} \* one the initial balance covers, one it does not
SignedAmounts == PurchaseAmounts \cup {-200} \* amount is any JSON number

DailyReturnChoices == {0, 7} \* 0: the field is missing from the request body

\* an amount the balance of a new account covers
DepositAmounts == {500, 1000}
ReferralBuyers == {4, 5, 6}
ReferralAmounts == {3, 40, 150, 300} \* some with a bonus of 0 at a level
PaidAmount == CHOOSE a \in PurchaseAmounts : 0 < a /\ a <= InitialSaldo
NoDate == -1                 \* a null timestamp column
NoUser == 0

VARIABLES
    now,          \* wall clock, hours
    saldo,        \* User.saldo
    purchase,     \* Purchase rows, id = index
    transaction,  \* Transaction rows, append-only
    systemLog,    \* SystemLog rows, append-only
    withdrawal,   \* Withdrawal rows
    dailyCheckin, \* DailyCheckin rows
    dailyTask,    \* DailyTask rows
    referralBonus, \* ReferralBonus rows, append-only
    deposit,      \* Deposit rows, id = index
    user,         \* User rows: whether the account exists, and its inviter_id
    referralLevel, \* ReferralLevel rows
    req,          \* per worker: the single-account request it is serving
    run,          \* per worker: the Payout Engine invocation it is serving
    bulk,         \* the bulk-balance request being served
    arrival,      \* the last request that reached a handler
    resp          \* the last response sent

vars == <<now, saldo, purchase, transaction, systemLog, withdrawal,
          dailyCheckin, dailyTask, referralBonus, deposit,
          user, referralLevel,
          req, run, bulk, arrival, resp>>

ledger == <<saldo, purchase, transaction, systemLog, withdrawal,
            dailyCheckin, dailyTask, referralBonus, deposit,
           user, referralLevel>>

\* ---------------------------------------------------------------- helpers
\* JavaScript's  x || d  on a number
OrDefault(x, d) == IF x = 0 THEN d ELSE x

\* today.setHours(0, 0, 0, 0)
StartOfDay(t) == t - (t % H24)

RECURSIVE SumAmounts(_)
SumAmounts(rows) ==
    IF rows = <<>> THEN 0 ELSE Head(rows).amount + SumAmounts(Tail(rows))

RowsOf(u) == SelectSeq(transaction, LAMBDA r : r.user_id = u)

TxRow(u, type, amount, after) ==
    [user_id |-> u, type |-> type, amount |-> amount, balance_after |-> after]

LogRow(action, u) == [action |-> action, user_id |-> u]

IdleReq == [kind |-> "idle", id |-> 0, user_id |-> NoUser, amount |-> 0,
            saldo |-> 0, daily_return |-> 0, cycle_days |-> 0,
            next_payout |-> NoDate, expiry_date |-> NoDate, today |-> NoDate,
            items |-> <<>>]

IdleRun == [phase |-> "idle", id |-> 0, now |-> NoDate, due |-> <<>>, pos |-> 0,
            processedCount |-> 0, totalAmount |-> 0, results |-> <<>>,
            errors |-> <<>>]

IdleBulk == [phase |-> "idle", id |-> 0, length |-> 0, pos |-> 0,
             results |-> <<>>, errors |-> <<>>]

NoArrival == [id |-> 0, op |-> "none", user_id |-> NoUser, amount |-> 0]

Response(id, op, u, amount, status) ==
    [id |-> id, op |-> op, user_id |-> u, amount |-> amount, status |-> status,
     at |-> now, processed |-> 0, results |-> <<>>, errors |-> <<>>]

NoResponse == [id |-> 0, op |-> "none", user_id |-> NoUser, amount |-> 0,
               status |-> 0, at |-> NoDate, processed |-> 0,
               results |-> <<>>, errors |-> <<>>]

AllIdle ==
    /\ \A w \in Workers : req[w].kind = "idle" /\ run[w].phase = "idle"
    /\ bulk.phase = "idle"

CanArrive == arrival.id < MaxArrivals

Arrive(op, u, amount) ==
    arrival' = [id |-> arrival.id + 1, op |-> op, user_id |-> u, amount |-> amount]

\* --------------------------------------------------------- referral network
\* /register: user u > 1 registers with the invitation code of user u - 1
Inviter(u) == IF u > 1 THEN u - 1 ELSE NoUser

\* seeded fault: the walk up the chain skips an account before level 3
CreateReferralNetworkSkipping(inviterId, newUserId) ==
    LET l2 == IF inviterId = NoUser THEN NoUser ELSE Inviter(inviterId)
        l3 == IF l2 = NoUser THEN NoUser ELSE Inviter(Inviter(l2))
    IN  {[referrer_id |-> inviterId, user_id |-> newUserId, level |-> 1]
            : x \in IF inviterId = NoUser THEN {} ELSE {1}}
        \cup {[referrer_id |-> l2, user_id |-> newUserId, level |-> 2]
            : x \in IF l2 = NoUser THEN {} ELSE {1}}
        \cup {[referrer_id |-> l3, user_id |-> newUserId, level |-> 3]
            : x \in IF l3 = NoUser THEN {} ELSE {1}}

\* createReferralNetwork: the rows written when newUserId registered
CreateReferralNetwork(inviterId, newUserId) ==
    LET l2 == IF inviterId = NoUser THEN NoUser ELSE Inviter(inviterId)
        l3 == IF l2 = NoUser THEN NoUser ELSE Inviter(l2)
    IN  {[referrer_id |-> inviterId, user_id |-> newUserId, level |-> 1]
            : x \in IF inviterId = NoUser THEN {} ELSE {1}}
        \cup {[referrer_id |-> l2, user_id |-> newUserId, level |-> 2]
            : x \in IF l2 = NoUser THEN {} ELSE {1}}
        \cup {[referrer_id |-> l3, user_id |-> newUserId, level |-> 3]
            : x \in IF l3 = NoUser THEN {} ELSE {1}}

\* the table when every account has registered with the code of its inviter
InitialReferralLevel ==
    UNION {CreateReferralNetwork(Inviter(u), u) : u \in Accounts}

\* ------------------------------------------------------------------- init
Init ==
    /\ now = 0
    /\ saldo = [u \in Accounts |-> InitialSaldo]
    /\ purchase = <<>>
    /\ transaction = <<>>
    /\ systemLog = <<>>
    /\ withdrawal = <<>>
    /\ dailyCheckin = {}
    /\ dailyTask = {}
    /\ referralBonus = <<>>
    /\ deposit = <<>>
    /\ user = [u \in Accounts |-> [status |-> "active", inviter_id |-> Inviter(u)]]
    /\ referralLevel = InitialReferralLevel
    /\ req = [w \in Workers |-> IdleReq]
    /\ run = [w \in Workers |-> IdleRun]
    /\ bulk = IdleBulk
    /\ arrival = NoArrival
    /\ resp = NoResponse

\* ------------------------------------------------------------------ clock
Tick(d) ==
    /\ now + d <= MaxClock
    /\ now' = now + d
    /\ UNCHANGED <<ledger, req, run, bulk, arrival, resp>>

\* bonusPercentages, in percent
BonusPercentage(level) ==
    CASE level = 1 -> Level1Pct
      [] level = 2 -> Level2Pct
      [] level = 3 -> Level3Pct
      [] OTHER -> 0

\* seeded fault: the bonus rounded up
BonusAmountRoundedUp(purchaseAmount, level) ==
    (purchaseAmount * BonusPercentage(level) + 99) \div 100

\* Math.floor(purchaseAmount * bonusPercentage)
BonusAmount(purchaseAmount, level) ==
    (purchaseAmount * BonusPercentage(level)) \div 100

\* the referral rows of a purchaser, orderBy level asc
RECURSIVE ReferrersFrom(_, _)
ReferrersFrom(purchaserId, level) ==
    IF level > 3 THEN <<>>
    ELSE LET rows == {r \in referralLevel :
                        r.user_id = purchaserId /\ r.level = level}
         IN  (IF rows = {} THEN <<>> ELSE <<CHOOSE r \in rows : TRUE>>)
             \o ReferrersFrom(purchaserId, level + 1)

\* ------------------------------------------------------- store failures
\* stages[k] is the store after the first k - 1 statements of a sequence of
\* statements; failAt is the statement that throws, 0 when none does.
\* seeded fault: a transaction whose earlier writes survive a throw
NoRollback(stages, failAt) ==
    IF failAt = 0 THEN stages[Len(stages)] ELSE stages[failAt]

\* statements awaited on the client itself (prisma.x.y) commit one by one: a
\* throw at statement failAt leaves the writes of the statements before it
OnClient(stages, failAt) ==
    IF failAt = 0 THEN stages[Len(stages)] ELSE stages[failAt]

\* prisma.$transaction(async (tx) => ...): a throw rolls every write back
InTransaction(stages, failAt) ==
    IF failAt = 0 THEN stages[Len(stages)] ELSE stages[1]

\* what the store does to one request: nothing, a throw of the statement stmt
\* of a transaction body, or a throw inside distributeReferralBonuses (of
\* findMany, or of statement stmt of level level)
NoFault == [at |-> "none", level |-> 0, stmt |-> 0]
FindManyFault == [at |-> "findMany", level |-> 0, stmt |-> 0]
LevelFault(level, stmt) == [at |-> "level", level |-> level, stmt |-> stmt]
DistributorFaults ==
    {NoFault, FindManyFault} \cup {LevelFault(l, k) : l \in 1..3, k \in 1..4}

TransactionFault(stmt) == [at |-> "transaction", level |-> 0, stmt |-> stmt]

\* the handler threw after its transaction had committed
ResponseFault == [at |-> "response", level |-> 0, stmt |-> 0]

FaultLogged(failAt) == IF failAt = 0 THEN <<>> ELSE <<TransactionFault(failAt)>>

\* the tables a transaction body writes
Store ==
    [saldo |-> saldo, purchase |-> purchase, transaction |-> transaction,
     systemLog |-> systemLog, withdrawal |-> withdrawal, deposit |-> deposit]

Install(out) ==
    /\ saldo' = out.saldo
    /\ purchase' = out.purchase
    /\ transaction' = out.transaction
    /\ systemLog' = out.systemLog
    /\ withdrawal' = out.withdrawal
    /\ deposit' = out.deposit
    /\ UNCHANGED <<dailyCheckin, dailyTask, referralBonus, user, referralLevel>>

ReferralBonusRow(r, purchaseAmount, bonusAmount) ==
    [referrer_id |-> r.referrer_id, referred_user_id |-> r.user_id,
     level |-> r.level, purchase_amount |-> purchaseAmount,
     bonus_amount |-> bonusAmount]

BonusDetail(r, bonusAmount) ==
    [level |-> r.level, sponsor_id |-> r.referrer_id, amount |-> bonusAmount]

\* seeded fault: a distributor without the try / catch of a level, so that a
\* throw at one level ends the loop
RECURSIVE DistributeReferralBonusesAborting(_, _, _, _)
DistributeReferralBonusesAborting(rows, purchaseAmount, st, fault) ==
    IF rows = <<>> THEN st
    ELSE LET r == Head(rows)
             b == BonusAmount(purchaseAmount, r.level)
             s == r.referrer_id
             st1 == [st EXCEPT !.saldo[s] = @ + b]
             st2 == [st1 EXCEPT !.transaction =
                        Append(@, TxRow(s, "referral_bonus", b, st1.saldo[s]))]
             st4 == [st2 EXCEPT
                        !.referralBonus =
                            Append(@, ReferralBonusRow(r, purchaseAmount, b)),
                        !.details = Append(@, BonusDetail(r, b))]
             failAt == IF fault.at = "level" /\ fault.level = r.level
                       THEN fault.stmt ELSE 0
         IN  IF failAt # 0 THEN OnClient(<<st, st, st1, st2, st4>>, failAt)
             ELSE DistributeReferralBonusesAborting(Tail(rows), purchaseAmount,
                      IF b > 0 THEN st4 ELSE st, fault)

\* distributeReferralBonuses called with the client as tx: for each referral
\* row findUnique, user.update (increment), transaction.create and
\* referralBonus.create are awaited one after another inside a try / catch of
\* that level; st is [saldo, transaction, referralBonus, details]
RECURSIVE DistributeReferralBonuses(_, _, _, _)
DistributeReferralBonuses(rows, purchaseAmount, st, fault) ==
    IF rows = <<>> THEN st
    ELSE LET r == Head(rows)
             b == BonusAmount(purchaseAmount, r.level)
             s == r.referrer_id
             st1 == [st EXCEPT !.saldo[s] = @ + b]
             st2 == [st1 EXCEPT !.transaction =
                        Append(@, TxRow(s, "referral_bonus", b, st1.saldo[s]))]
             st3 == [st2 EXCEPT !.referralBonus =
                        Append(@, ReferralBonusRow(r, purchaseAmount, b))]
             st4 == [st3 EXCEPT !.details = Append(@, BonusDetail(r, b))]
             failAt == IF fault.at = "level" /\ fault.level = r.level
                       THEN fault.stmt ELSE 0
             next == IF BonusPercentage(r.level) # 0 /\ b > 0
                     THEN OnClient(<<st, st, st1, st2, st4>>, failAt)
                     ELSE st
         IN  DistributeReferralBonuses(Tail(rows), purchaseAmount, next, fault)

\* ------------------------------------------------------- POST /api/purchase
\* seeded faults of the balance check: no check, and the comparison reversed
NoFundsCheck(userSaldo, amount) == FALSE
ReversedFundsCheck(userSaldo, amount) == userSaldo > amount

\* if (user.saldo < amount)
InsufficientFunds(userSaldo, amount) == userSaldo < amount

Reject(op, u, amount, status) ==
    /\ Arrive(op, u, amount)
    /\ resp' = Response(arrival.id + 1, op, u, amount, status)

PurchaseBegin(w, u, amount, daily_return, cycle_days) ==
    /\ CanArrive
    /\ req[w].kind = "idle"
    /\ IF amount = 0 \/ InsufficientFunds(saldo[u], amount)
       THEN /\ Reject("purchase", u, amount, 400)
            /\ UNCHANGED <<now, ledger, req, run, bulk>>
       ELSE /\ Arrive("purchase", u, amount)
            /\ req' = [req EXCEPT ![w] =
                   [IdleReq EXCEPT !.kind = "purchase", !.id = arrival.id + 1,
                       !.user_id = u, !.amount = amount, !.saldo = saldo[u],
                       !.daily_return = daily_return, !.cycle_days = cycle_days,
                       !.next_payout = now + H24,
                       !.expiry_date =
                           now + OrDefault(cycle_days, DefaultCycleDays) * H24]]
            /\ UNCHANGED <<now, ledger, run, bulk, resp>>

\* seeded fault: every purchase expires after the default cycle
NewPurchaseDefaultExpiry(r) ==
    [user_id |-> r.user_id, amount |-> r.amount,
     daily_return |-> OrDefault(r.daily_return, DefaultDailyReturn),
     cycle_days |-> OrDefault(r.cycle_days, DefaultCycleDays),
     purchase_date |-> now, next_payout |-> r.next_payout,
     expiry_date |-> now + DefaultCycleDays * H24, status |-> "active",
     total_earned |-> 0, payout_count |-> 0, last_payout |-> NoDate]

\* seeded fault: the row keeps the daily_return of the request body as it is
NewPurchaseRawReturn(r) ==
    [user_id |-> r.user_id, amount |-> r.amount,
     daily_return |-> r.daily_return,
     cycle_days |-> OrDefault(r.cycle_days, DefaultCycleDays),
     purchase_date |-> now, next_payout |-> r.next_payout,
     expiry_date |-> r.expiry_date, status |-> "active",
     total_earned |-> 0, payout_count |-> 0, last_payout |-> NoDate]

NewPurchase(r) ==
    [user_id |-> r.user_id, amount |-> r.amount,
     daily_return |-> OrDefault(r.daily_return, DefaultDailyReturn),
     cycle_days |-> OrDefault(r.cycle_days, DefaultCycleDays),
     purchase_date |-> now, next_payout |-> r.next_payout,
     expiry_date |-> r.expiry_date, status |-> "active",
     total_earned |-> 0, payout_count |-> 0, last_payout |-> NoDate]

\* the prisma.$transaction body
PurchaseCommit(w) ==
    LET r == req[w]
        after == saldo[r.user_id] - r.amount
    IN  /\ r.kind = "purchase"
        /\ saldo' = [saldo EXCEPT ![r.user_id] = after]
        /\ purchase' = Append(purchase, NewPurchase(r))
        /\ transaction' = Append(transaction,
               TxRow(r.user_id, "purchase", -r.amount, after))
        /\ req' = [req EXCEPT ![w].kind = "purchase_bonus", ![w].saldo = after]
        /\ UNCHANGED <<now, systemLog, withdrawal, dailyCheckin, dailyTask,
                       run, bulk, arrival, resp,
                       referralBonus, deposit, user, referralLevel>>

\* seeded fault: a purchase that reports the failure of the distribution
PurchaseStatusFailing(fault) == IF fault = NoFault THEN 200 ELSE 500

\* try { bonusResults = await distributeReferralBonuses(...) } catch { } and
\* the res.json that follows: the answer does not depend on the distribution
PurchaseStatus(fault) == 200

\* distributeReferralBonuses (which catches its own errors), the
\* PURCHASE_COMPLETED log and the response; resp.results is bonusResults.details
\* and resp.errors holds what console.error recorded
PurchaseFinish(w, fault) ==
    LET r == req[w]
        st0 == [saldo |-> saldo, transaction |-> transaction,
                referralBonus |-> referralBonus, details |-> <<>>]
        st == IF fault.at = "findMany" THEN st0
              ELSE DistributeReferralBonuses(ReferrersFrom(r.user_id, 1),
                       r.amount, st0, fault)
    IN  /\ r.kind = "purchase_bonus"
        /\ saldo' = st.saldo
        /\ transaction' = st.transaction
        /\ referralBonus' = st.referralBonus
        /\ systemLog' = Append(systemLog, LogRow("PURCHASE_COMPLETED", r.user_id))
        /\ resp' = [Response(r.id, "purchase", r.user_id, r.amount,
                              PurchaseStatus(fault)) EXCEPT
                       !.results = st.details,
                       !.errors = IF fault = NoFault THEN <<>> ELSE <<fault>>]
        /\ req' = [req EXCEPT ![w] = IdleReq]
        /\ UNCHANGED <<now, purchase, withdrawal, dailyCheckin, dailyTask,
                       deposit, run, bulk, arrival, user, referralLevel>>


\* the main prisma.$transaction threw at statement failAt (user.update,
\* purchase.create, transaction.create): the unit is rolled back, the inner
\* catch rethrows 'Falha na transação: ...' and the outer catch answers 500
PurchaseAbort(w, failAt) ==
    LET r == req[w]
    IN  /\ r.kind = "purchase"
        /\ failAt \in 1..3
        /\ resp' = [Response(r.id, "purchase", r.user_id, r.amount, 500)
                        EXCEPT !.errors = FaultLogged(failAt)]
        /\ req' = [req EXCEPT ![w] = IdleReq]
        /\ UNCHANGED <<now, ledger, run, bulk, arrival>>

\* after the main transaction and the distribution, a statement on the
\* client throws: systemLog.create (stmt 1, no log row) or the user.findUnique
\* that confirms the balance (stmt 2); the outer catch answers 500
PurchaseFinishThrew(w, stmt) ==
    LET r == req[w]
        st0 == [saldo |-> saldo, transaction |-> transaction,
                referralBonus |-> referralBonus, details |-> <<>>]
        st == DistributeReferralBonuses(ReferrersFrom(r.user_id, 1),
                  r.amount, st0, NoFault)
    IN  /\ r.kind = "purchase_bonus"
        /\ stmt \in 1..2
        /\ saldo' = st.saldo
        /\ transaction' = st.transaction
        /\ referralBonus' = st.referralBonus
        /\ systemLog' = IF stmt = 1 THEN systemLog
                        ELSE Append(systemLog,
                                 LogRow("PURCHASE_COMPLETED", r.user_id))
        /\ resp' = [Response(r.id, "purchase", r.user_id, r.amount, 500)
                        EXCEPT !.errors = <<ResponseFault>>]
        /\ req' = [req EXCEPT ![w] = IdleReq]
        /\ UNCHANGED <<now, purchase, withdrawal, dailyCheckin, dailyTask,
                       deposit, run, bulk, arrival, user, referralLevel>>


\* ---------------------------------------------------------- POST /register
\* createReferralNetwork as it runs: the creates and lookups are awaited on
\* the client one after the other inside one try, statement failAt throws
\* (1 create level 1, 2 findUnique inviter, 3 create level 2, 4 findUnique
\* level-2 inviter, 5 create level 3) and the catch only logs
CreateReferralNetworkRows(inviterId, newUserId, failAt) ==
    LET Passed(k) == failAt = 0 \/ failAt > k
        l2 == user[inviterId].inviter_id
        l3 == IF l2 = NoUser THEN NoUser ELSE user[l2].inviter_id
    IN  {[referrer_id |-> inviterId, user_id |-> newUserId, level |-> 1]
            : x \in IF Passed(1) THEN {1} ELSE {}}
        \cup {[referrer_id |-> l2, user_id |-> newUserId, level |-> 2]
            : x \in IF l2 # NoUser /\ Passed(3) THEN {1} ELSE {}}
        \cup {[referrer_id |-> l3, user_id |-> newUserId, level |-> 3]
            : x \in IF l2 # NoUser /\ l3 # NoUser /\ Passed(5) THEN {1} ELSE {}}

\* the id of the next User row
NewUserId == CHOOSE u \in Accounts :
                 /\ user[u].status = "none"
                 /\ \A v \in Accounts : user[v].status = "none" => u <= v

\* inviterId is the account the invitation code of the body belongs to,
\* NoUser when the body has none; 400 when no account has that code
Register(inviterId, failAt) ==
    /\ CanArrive
    /\ \E u \in Accounts : user[u].status = "none"
    /\ IF inviterId # NoUser /\ user[inviterId].status # "active"
       THEN /\ failAt = 0
            /\ Reject("register", NoUser, 0, 400)
            /\ UNCHANGED <<now, ledger, req, run, bulk>>
       ELSE /\ inviterId = NoUser => failAt = 0
            /\ Arrive("register", NewUserId, 0)
            /\ user' = [user EXCEPT ![NewUserId] =
                   [status |-> "active", inviter_id |-> inviterId]]
            /\ saldo' = [saldo EXCEPT ![NewUserId] = InitialSaldo]
            /\ referralLevel' =
                   IF inviterId = NoUser THEN referralLevel
                   ELSE referralLevel \cup
                        CreateReferralNetworkRows(inviterId, NewUserId, failAt)
            /\ resp' = Response(arrival.id + 1, "register", NewUserId, 0, 201)
            /\ UNCHANGED <<now, purchase, transaction, systemLog, withdrawal,
                           dailyCheckin, dailyTask, referralBonus, deposit,
                           req, run, bulk>>

\* ------------------------------------- DELETE /api/admin2/users/:id/delete
\* findUnique, 404 when missing; the prisma.$transaction body: deleteMany on
\* every table for the rows of the user (ReferralBonus and ReferralLevel rows
\* also where the user is the referrer), inviter_id of its invitees set to
\* null, the User row deleted; then the USER_DELETED_ADMIN2 log
DeleteUser(id) ==
    LET Kept(rows) == SelectSeq(rows, LAMBDA r : r.user_id # id)
    IN  /\ CanArrive
        /\ IF user[id].status # "active"
           THEN /\ Reject("delete_user", NoUser, id, 404)
                /\ UNCHANGED <<now, ledger, req, run, bulk>>
           ELSE /\ Arrive("delete_user", id, 0)
                /\ dailyTask' = {r \in dailyTask : r.user_id # id}
                /\ dailyCheckin' = {r \in dailyCheckin : r.user_id # id}
                /\ referralBonus' = SelectSeq(referralBonus,
                       LAMBDA r : r.referrer_id # id /\ r.referred_user_id # id)
                /\ referralLevel' = {r \in referralLevel :
                                        r.referrer_id # id /\ r.user_id # id}
                /\ transaction' = Kept(transaction)
                /\ withdrawal' = Kept(withdrawal)
                /\ deposit' = Kept(deposit)
                /\ purchase' = Kept(purchase)
                /\ systemLog' = Append(Kept(systemLog),
                       LogRow("USER_DELETED_ADMIN2", NoUser))
                /\ user' = [u \in Accounts |->
                       IF u = id
                       THEN [status |-> "deleted", inviter_id |-> NoUser]
                       ELSE IF user[u].inviter_id = id
                       THEN [user[u] EXCEPT !.inviter_id = NoUser]
                       ELSE user[u]]
                /\ resp' = Response(arrival.id + 1, "delete_user", id, 0, 200)
                /\ UNCHANGED <<now, saldo, req, run, bulk>>

\* ------------------------------------------------------- POST /api/withdraw
WithdrawBegin(w, u, amount, bankInfo) ==
    /\ CanArrive
    /\ req[w].kind = "idle"
    /\ IF amount <= 0 \/ ~bankInfo \/ InsufficientFunds(saldo[u], amount)
       THEN /\ Reject("withdraw", u, amount, 400)
            /\ UNCHANGED <<now, ledger, req, run, bulk>>
       ELSE /\ Arrive("withdraw", u, amount)
            /\ req' = [req EXCEPT ![w] =
                   [IdleReq EXCEPT !.kind = "withdraw", !.id = arrival.id + 1,
                       !.user_id = u, !.amount = amount, !.saldo = saldo[u]]]
            /\ UNCHANGED <<now, ledger, run, bulk, resp>>

\* the prisma.$transaction body (user.update, withdrawal.create,
\* transaction.create, systemLog.create) and the response or the catch
WithdrawTransaction(w, failAt) ==
    LET r == req[w]
        u == r.user_id
        s1 == [Store EXCEPT !.saldo[u] = @ - r.amount]
        s2 == [s1 EXCEPT !.withdrawal = Append(@,
                  [user_id |-> u, amount |-> r.amount, status |-> "pending"])]
        s3 == [s2 EXCEPT !.transaction = Append(@,
                  TxRow(u, "withdrawal", -r.amount, s1.saldo[u]))]
        s4 == [s3 EXCEPT !.systemLog = Append(@, LogRow("WITHDRAWAL_REQUEST", u))]
    IN  /\ r.kind = "withdraw"
        /\ failAt \in 0..4
        /\ Install(InTransaction(<<Store, s1, s2, s3, s4>>, failAt))
        /\ resp' = [Response(r.id, "withdraw", u, r.amount,
                             IF failAt = 0 THEN 200 ELSE 500)
                        EXCEPT !.errors = FaultLogged(failAt)]
        /\ req' = [req EXCEPT ![w] = IdleReq]
        /\ UNCHANGED <<now, run, bulk, arrival, user, referralLevel>>

WithdrawCommit(w) == WithdrawTransaction(w, 0)


\* ------------------------------------- PUT /api/admin/withdrawal/:id/approve
\* findUnique, 404 when missing; the status is not looked at before
\* withdrawal.update (status completed) and the WITHDRAWAL_APPROVED log
WithdrawalApprove(id) ==
    /\ CanArrive
    /\ IF id \notin 1..Len(withdrawal)
       THEN /\ Reject("withdrawal_approve", NoUser, id, 404)
            /\ UNCHANGED <<now, ledger, req, run, bulk>>
       ELSE /\ Arrive("withdrawal_approve", withdrawal[id].user_id, id)
            /\ withdrawal' = [withdrawal EXCEPT ![id].status = "completed"]
            /\ systemLog' = Append(systemLog,
                   LogRow("WITHDRAWAL_APPROVED", withdrawal[id].user_id))
            /\ resp' = Response(arrival.id + 1, "withdrawal_approve",
                           withdrawal[id].user_id, id, 200)
            /\ UNCHANGED <<now, saldo, purchase, transaction, deposit,
                           dailyCheckin, dailyTask, referralBonus,
                           req, run, bulk, user, referralLevel>>

\* -------------------------------------- PUT /api/admin/withdrawal/:id/reject
\* findUnique, 404 when missing; the status is not looked at; the
\* prisma.$transaction body: user.update (increment by withdrawal.amount),
\* withdrawal.update (status failed), the withdrawal_refund row and the log
WithdrawalReject(id) ==
    /\ CanArrive
    /\ IF id \notin 1..Len(withdrawal)
       THEN /\ Reject("withdrawal_reject", NoUser, id, 404)
            /\ UNCHANGED <<now, ledger, req, run, bulk>>
       ELSE LET u == withdrawal[id].user_id
                after == saldo[u] + withdrawal[id].amount
            IN  /\ Arrive("withdrawal_reject", u, id)
                /\ saldo' = [saldo EXCEPT ![u] = after]
                /\ withdrawal' = [withdrawal EXCEPT ![id].status = "failed"]
                /\ transaction' = Append(transaction,
                       TxRow(u, "withdrawal_refund", withdrawal[id].amount,
                             after))
                /\ systemLog' = Append(systemLog,
                       LogRow("WITHDRAWAL_REJECTED", u))
                /\ resp' = Response(arrival.id + 1, "withdrawal_reject",
                               u, id, 200)
                /\ UNCHANGED <<now, purchase, deposit, dailyCheckin,
                               dailyTask, referralBonus, req, run, bulk,
                               user, referralLevel>>

\* --------------------------------- POST /api/admin2/users/:id/deduct-balance
DeductBegin(w, u, amount) ==
    /\ CanArrive
    /\ req[w].kind = "idle"
    /\ IF amount <= 0 \/ InsufficientFunds(saldo[u], amount)
       THEN /\ Reject("deduct", u, amount, 400)
            /\ UNCHANGED <<now, ledger, req, run, bulk>>
       ELSE /\ Arrive("deduct", u, amount)
            /\ req' = [req EXCEPT ![w] =
                   [IdleReq EXCEPT !.kind = "deduct", !.id = arrival.id + 1,
                       !.user_id = u, !.amount = amount, !.saldo = saldo[u]]]
            /\ UNCHANGED <<now, ledger, run, bulk, resp>>

\* the prisma.$transaction body (user.update, transaction.create,
\* systemLog.create) and the response or the catch
DeductTransaction(w, failAt) ==
    LET r == req[w]
        u == r.user_id
        s1 == [Store EXCEPT !.saldo[u] = @ - r.amount]
        s2 == [s1 EXCEPT !.transaction = Append(@,
                  TxRow(u, "admin_deduction", -r.amount, s1.saldo[u]))]
        s3 == [s2 EXCEPT !.systemLog = Append(@, LogRow("ADMIN_BALANCE_DEDUCT", u))]
    IN  /\ r.kind = "deduct"
        /\ failAt \in 0..3
        /\ Install(InTransaction(<<Store, s1, s2, s3>>, failAt))
        /\ resp' = [Response(r.id, "deduct", u, r.amount,
                             IF failAt = 0 THEN 200 ELSE 500)
                        EXCEPT !.errors = FaultLogged(failAt)]
        /\ req' = [req EXCEPT ![w] = IdleReq]
        /\ UNCHANGED <<now, run, bulk, arrival, user, referralLevel>>

DeductCommit(w) == DeductTransaction(w, 0)

\* ------------------------------------ POST /api/admin2/users/:id/add-balance
AddBalanceBegin(w, u, amount) ==
    /\ CanArrive
    /\ req[w].kind = "idle"
    /\ IF amount <= 0
       THEN /\ Reject("add", u, amount, 400)
            /\ UNCHANGED <<now, ledger, req, run, bulk>>
       ELSE /\ Arrive("add", u, amount)
            /\ req' = [req EXCEPT ![w] =
                   [IdleReq EXCEPT !.kind = "add", !.id = arrival.id + 1,
                       !.user_id = u, !.amount = amount, !.saldo = saldo[u]]]
            /\ UNCHANGED <<now, ledger, run, bulk, resp>>

\* the prisma.$transaction body (user.update, transaction.create,
\* systemLog.create) and the response or the catch
AddBalanceTransaction(w, failAt) ==
    LET r == req[w]
        u == r.user_id
        s1 == [Store EXCEPT !.saldo[u] = @ + r.amount]
        s2 == [s1 EXCEPT !.transaction = Append(@,
                  TxRow(u, "admin_addition", r.amount, s1.saldo[u]))]
        s3 == [s2 EXCEPT !.systemLog = Append(@, LogRow("ADMIN_BALANCE_ADD", u))]
    IN  /\ r.kind = "add"
        /\ failAt \in 0..3
        /\ Install(InTransaction(<<Store, s1, s2, s3>>, failAt))
        /\ resp' = [Response(r.id, "add", u, r.amount,
                             IF failAt = 0 THEN 200 ELSE 500)
                        EXCEPT !.errors = FaultLogged(failAt)]
        /\ req' = [req EXCEPT ![w] = IdleReq]
        /\ UNCHANGED <<now, run, bulk, arrival, user, referralLevel>>

AddBalanceCommit(w) == AddBalanceTransaction(w, 0)

\* ------------------------------------ POST /api/admin2/users/:id/set-balance
\* difference >= 0 ? 'admin_addition' : 'admin_deduction'
AdjustmentType(difference) ==
    IF difference >= 0 THEN "admin_addition" ELSE "admin_deduction"

SetBalanceBegin(w, u, new_balance) ==
    /\ CanArrive
    /\ req[w].kind = "idle"
    /\ IF new_balance < 0
       THEN /\ Reject("set", u, new_balance, 400)
            /\ UNCHANGED <<now, ledger, req, run, bulk>>
       ELSE /\ Arrive("set", u, new_balance)
            /\ req' = [req EXCEPT ![w] =
                   [IdleReq EXCEPT !.kind = "set", !.id = arrival.id + 1,
                       !.user_id = u, !.amount = new_balance, !.saldo = saldo[u]]]
            /\ UNCHANGED <<now, ledger, run, bulk, resp>>

\* difference is computed from the balance read before the transaction
SetBalanceCommit(w) ==
    LET r == req[w]
        difference == r.amount - r.saldo
    IN  /\ r.kind = "set"
        /\ saldo' = [saldo EXCEPT ![r.user_id] = r.amount]
        /\ transaction' = Append(transaction,
               TxRow(r.user_id, AdjustmentType(difference), difference, r.amount))
        /\ systemLog' = Append(systemLog, LogRow("ADMIN_SET_BALANCE", r.user_id))
        /\ resp' = Response(r.id, "set", r.user_id, r.amount, 200)
        /\ req' = [req EXCEPT ![w] = IdleReq]
        /\ UNCHANGED <<now, purchase, withdrawal, dailyCheckin, dailyTask,
                       run, bulk, arrival,
                       referralBonus, deposit, user, referralLevel>>

\* ------------------------------------------------------- POST /api/deposit
\* deposit.create (pending) and the DEPOSIT_REQUEST log
DepositRequest(u, amount, bankInfo) ==
    /\ CanArrive
    /\ IF amount <= 0 \/ ~bankInfo \/ amount < MinDeposit
       THEN /\ Reject("deposit", u, amount, 400)
            /\ UNCHANGED <<now, ledger, req, run, bulk>>
       ELSE /\ Arrive("deposit", u, amount)
            /\ deposit' = Append(deposit,
                   [user_id |-> u, amount |-> amount, status |-> "pending"])
            /\ systemLog' = Append(systemLog, LogRow("DEPOSIT_REQUEST", u))
            /\ resp' = Response(arrival.id + 1, "deposit", u, amount, 200)
            /\ UNCHANGED <<now, saldo, purchase, transaction, withdrawal,
                           dailyCheckin, dailyTask, referralBonus,
                           req, run, bulk, user, referralLevel>>

\* --------------------------------------- PUT /api/admin/deposit/:id/approve
\* findUnique, 404 when missing, 400 when deposit.status === 'completed'
DepositApproveBegin(w, id) ==
    /\ CanArrive
    /\ req[w].kind = "idle"
    /\ IF id \notin 1..Len(deposit)
       THEN /\ Reject("approve", NoUser, id, 404)
            /\ UNCHANGED <<now, ledger, req, run, bulk>>
       ELSE IF deposit[id].status = "completed"
       THEN /\ Reject("approve", deposit[id].user_id, id, 400)
            /\ UNCHANGED <<now, ledger, req, run, bulk>>
       ELSE /\ Arrive("approve", deposit[id].user_id, id)
            /\ req' = [req EXCEPT ![w] =
                   [IdleReq EXCEPT !.kind = "approve", !.id = arrival.id + 1,
                       !.user_id = deposit[id].user_id,
                       !.amount = deposit[id].amount,
                       !.saldo = saldo[deposit[id].user_id],
                       !.items = <<[id |-> id, row |-> deposit[id]]>>]]
            /\ UNCHANGED <<now, ledger, run, bulk, resp>>

\* the prisma.$transaction body (user.update, deposit.update,
\* transaction.create, systemLog.create); after the commit the handler reads
\* the undeclared name  result  in res.json, which throws into the catch: the
\* answer is 500 in every case
DepositApproveTransaction(w, failAt) ==
    LET r == req[w]
        u == r.user_id
        id == r.items[1].id
        s1 == [Store EXCEPT !.saldo[u] = @ + r.amount]
        s2 == [s1 EXCEPT !.deposit[id].status = "completed"]
        s3 == [s2 EXCEPT !.transaction = Append(@,
                  TxRow(u, "deposit", r.amount, s1.saldo[u]))]
        s4 == [s3 EXCEPT !.systemLog = Append(@, LogRow("DEPOSIT_APPROVED", u))]
    IN  /\ r.kind = "approve"
        /\ failAt \in 0..4
        /\ Install(InTransaction(<<Store, s1, s2, s3, s4>>, failAt))
        /\ resp' = [Response(r.id, "approve", u, id, 500) EXCEPT
                       !.errors = IF failAt = 0 THEN <<ResponseFault>>
                                  ELSE FaultLogged(failAt)]
        /\ req' = [req EXCEPT ![w] = IdleReq]
        /\ UNCHANGED <<now, run, bulk, arrival, user, referralLevel>>

DepositApproveCommit(w) == DepositApproveTransaction(w, 0)

\* ---------------------------------------- PUT /api/admin/deposit/:id/reject
\* findUnique, 404 when missing; the status is not looked at before
\* deposit.update (status failed) and the DEPOSIT_REJECTED log
DepositReject(id) ==
    /\ CanArrive
    /\ IF id \notin 1..Len(deposit)
       THEN /\ Reject("reject", NoUser, id, 404)
            /\ UNCHANGED <<now, ledger, req, run, bulk>>
       ELSE /\ Arrive("reject", deposit[id].user_id, id)
            /\ deposit' = [deposit EXCEPT ![id].status = "failed"]
            /\ systemLog' = Append(systemLog,
                   LogRow("DEPOSIT_REJECTED", deposit[id].user_id))
            /\ resp' = Response(arrival.id + 1, "reject",
                           deposit[id].user_id, id, 200)
            /\ UNCHANGED <<now, saldo, purchase, transaction, withdrawal,
                           dailyCheckin, dailyTask, referralBonus,
                           req, run, bulk, user, referralLevel>>

\* ------------------------------------------------------- POST /api/checkin
\* findFirst: a row of the user with checkin_date in [today, today + 24h)
CheckedInToday(u) ==
    \E c \in dailyCheckin :
        /\ c.user_id = u
        /\ c.checkin_date >= StartOfDay(now)
        /\ c.checkin_date < StartOfDay(now) + H24

\* dailyCheckin.create, then user.update with saldo increment 10; the handler
\* writes no Transaction row and no SystemLog row
Checkin(u) ==
    /\ CanArrive
    /\ Arrive("checkin", u, CheckinReward)
    /\ IF CheckedInToday(u)
       THEN /\ resp' = Response(arrival.id + 1, "checkin", u, CheckinReward, 400)
            /\ UNCHANGED <<now, ledger, req, run, bulk>>
       ELSE /\ dailyCheckin' = dailyCheckin \cup
                   {[user_id |-> u, checkin_date |-> now]}
            /\ saldo' = [saldo EXCEPT ![u] = @ + CheckinReward]
            /\ resp' = Response(arrival.id + 1, "checkin", u, CheckinReward, 200)
            /\ UNCHANGED <<now, purchase, transaction, systemLog, withdrawal,
                           dailyTask, req, run, bulk,
                       referralBonus, deposit, user, referralLevel>>

\* ------------------------------------------- POST /api/tasks/daily-checkin
TaskDoneToday(u, type) ==
    \E t \in dailyTask :
        /\ t.user_id = u
        /\ t.task_type = type
        /\ t.task_date >= StartOfDay(now)
        /\ t.task_date < StartOfDay(now) + H24

TaskRow(u, type) == [user_id |-> u, task_type |-> type, task_date |-> now]

DailyCheckinTask(u) ==
    /\ CanArrive
    /\ Arrive("daily_checkin", u, TaskCheckinReward)
    /\ IF TaskDoneToday(u, "daily_checkin")
       THEN /\ resp' = Response(arrival.id + 1, "daily_checkin", u,
                           TaskCheckinReward, 400)
            /\ UNCHANGED <<now, ledger, req, run, bulk>>
       ELSE /\ saldo' = [saldo EXCEPT ![u] = @ + TaskCheckinReward]
            /\ dailyTask' = dailyTask \cup {TaskRow(u, "daily_checkin")}
            /\ transaction' = Append(transaction,
                   TxRow(u, "daily_checkin", TaskCheckinReward,
                         saldo[u] + TaskCheckinReward))
            /\ systemLog' = Append(systemLog, LogRow("DAILY_CHECKIN", u))
            /\ resp' = Response(arrival.id + 1, "daily_checkin", u,
                           TaskCheckinReward, 200)
            /\ UNCHANGED <<now, purchase, withdrawal, dailyCheckin, req, run, bulk,
                       referralBonus, deposit, user, referralLevel>>

\* ------------------------------------------------------ income collection
PurchaseIds == 1..Len(purchase)

RECURSIVE SeqOfIdsFirstOwner(_, _)
\* seeded fault: every row of the result carries the owner of the first row
SeqOfIdsFirstOwner(ids, from) ==
    IF from > Len(purchase) THEN <<>>
    ELSE (IF from \in ids
          THEN <<[id |-> from,
                  row |-> [purchase[from] EXCEPT !.user_id = purchase[1].user_id]]>>
          ELSE <<>>)
         \o SeqOfIdsFirstOwner(ids, from + 1)

RECURSIVE SeqOfIds(_, _)
\* the ids of a set in ascending order, as a sequence of [id, row] snapshots
SeqOfIds(ids, from) ==
    IF from > Len(purchase) THEN <<>>
    ELSE (IF from \in ids THEN <<[id |-> from, row |-> purchase[from]]>> ELSE <<>>)
         \o SeqOfIds(ids, from + 1)

\* where: { user_id, status: 'active', expiry_date: { gt: new Date() } }
ActivePurchases(u) ==
    {i \in PurchaseIds : /\ purchase[i].user_id = u
                         /\ purchase[i].status = "active"
                         /\ purchase[i].expiry_date > now}

RECURSIVE TotalIncome(_)
\* reduce((sum, purchase) => sum + (purchase.daily_return || 0), 0)
TotalIncome(items) ==
    IF items = <<>> THEN 0
    ELSE Head(items).row.daily_return + TotalIncome(Tail(items))

RECURSIVE CreditAll(_, _)
\* for (const purchase of activePurchases) tx.purchase.update({ last_payout,
\* total_earned: { increment }, payout_count: { increment: 1 } })
CreditAll(items, rows) ==
    IF items = <<>> THEN rows
    ELSE LET it == Head(items)
         IN  CreditAll(Tail(items),
                 [rows EXCEPT ![it.id].last_payout = now,
                              ![it.id].total_earned = @ + it.row.daily_return,
                              ![it.id].payout_count = @ + 1])

\* POST /api/tasks/collect-product-income (all active purchases of the user)
CollectBegin(w, u) ==
    LET items == SeqOfIds(ActivePurchases(u), 1)
        totalIncome == TotalIncome(items)
    IN  /\ CanArrive
        /\ req[w].kind = "idle"
        /\ IF TaskDoneToday(u, "product_income") \/ items = <<>> \/ totalIncome <= 0
           THEN /\ Reject("collect", u, 0, 400)
                /\ UNCHANGED <<now, ledger, req, run, bulk>>
           ELSE /\ Arrive("collect", u, totalIncome)
                /\ req' = [req EXCEPT ![w] =
                       [IdleReq EXCEPT !.kind = "collect", !.id = arrival.id + 1,
                           !.user_id = u, !.amount = totalIncome,
                           !.items = items]]
                /\ UNCHANGED <<now, ledger, run, bulk, resp>>

CollectCommit(w) ==
    LET r == req[w]
        after == saldo[r.user_id] + r.amount
    IN  /\ r.kind = "collect"
        /\ saldo' = [saldo EXCEPT ![r.user_id] = after]
        /\ dailyTask' = dailyTask \cup {TaskRow(r.user_id, "product_income")}
        /\ transaction' = Append(transaction,
               TxRow(r.user_id, "product_income", r.amount, after))
        /\ purchase' = CreditAll(r.items, purchase)
        /\ systemLog' = Append(systemLog,
               LogRow("PRODUCT_INCOME_COLLECTION", r.user_id))
        /\ resp' = Response(r.id, "collect", r.user_id, r.amount, 200)
        /\ req' = [req EXCEPT ![w] = IdleReq]
        /\ UNCHANGED <<now, withdrawal, dailyCheckin, run, bulk, arrival,
                       referralBonus, deposit, user, referralLevel>>

\* simulate-action with action_type collect_income: simulateCollectIncome
SimulateCollectBegin(w, u) ==
    LET items == SeqOfIds(ActivePurchases(u), 1)
    IN  /\ CanArrive
        /\ req[w].kind = "idle"
        /\ IF items = <<>>
           THEN /\ Reject("simulate_collect", u, 0, 500)
                /\ UNCHANGED <<now, ledger, req, run, bulk>>
           ELSE /\ Arrive("simulate_collect", u, TotalIncome(items))
                /\ req' = [req EXCEPT ![w] =
                       [IdleReq EXCEPT !.kind = "simulate_collect",
                           !.id = arrival.id + 1, !.user_id = u,
                           !.amount = TotalIncome(items), !.items = items]]
                /\ UNCHANGED <<now, ledger, run, bulk, resp>>

SimulateCollectCommit(w) ==
    LET r == req[w]
        after == saldo[r.user_id] + r.amount
    IN  /\ r.kind = "simulate_collect"
        /\ saldo' = [saldo EXCEPT ![r.user_id] = after]
        /\ purchase' = CreditAll(r.items, purchase)
        /\ transaction' = Append(transaction,
               TxRow(r.user_id, "product_income", r.amount, after))
        /\ systemLog' = Append(systemLog,
               LogRow("INCOME_COLLECTED_SIMULATED_ADMIN2", r.user_id))
        /\ resp' = Response(r.id, "simulate_collect", r.user_id, r.amount, 200)
        /\ req' = [req EXCEPT ![w] = IdleReq]
        /\ UNCHANGED <<now, withdrawal, dailyCheckin, dailyTask, run, bulk, arrival,
                       referralBonus, deposit, user, referralLevel>>

\* lastPayout and today fall on the same calendar day
SameDay(lastPayout, today) == StartOfDay(lastPayout) = StartOfDay(today)

\* POST /api/tasks/collect-product-income with product_id (one purchase)
CollectOneBegin(w, u, product_id) ==
    /\ CanArrive
    /\ req[w].kind = "idle"
    /\ IF ~(product_id \in PurchaseIds
            /\ purchase[product_id].user_id = u
            /\ purchase[product_id].status = "active")
       THEN /\ Reject("collect_one", u, product_id, 404)
            /\ UNCHANGED <<now, ledger, req, run, bulk>>
       ELSE LET p == purchase[product_id]
            IN  IF now > p.expiry_date
                THEN /\ purchase' = [purchase EXCEPT
                                        ![product_id].status = "completed"]
                     /\ Reject("collect_one", u, product_id, 400)
                     /\ UNCHANGED <<now, saldo, transaction, systemLog,
                                    withdrawal, dailyCheckin, dailyTask,
                                    req, run, bulk,
                       referralBonus, deposit, user, referralLevel>>
                ELSE IF p.last_payout # NoDate /\ SameDay(p.last_payout, now)
                THEN /\ Reject("collect_one", u, product_id, 400)
                     /\ UNCHANGED <<now, ledger, req, run, bulk>>
                ELSE /\ Arrive("collect_one", u, product_id)
                     /\ req' = [req EXCEPT ![w] =
                            [IdleReq EXCEPT !.kind = "collect_one",
                                !.id = arrival.id + 1, !.user_id = u,
                                !.amount = p.daily_return,
                                !.next_payout = now + H24,
                                !.today = now,
                                !.items = <<[id |-> product_id, row |-> p]>>]]
                     /\ UNCHANGED <<now, ledger, run, bulk, resp>>

\* last_payout: today and next_payout: today + 24h use the time of the read
CollectOneCommit(w) ==
    LET r == req[w]
        id == r.items[1].id
        after == saldo[r.user_id] + r.amount
    IN  /\ r.kind = "collect_one"
        /\ saldo' = [saldo EXCEPT ![r.user_id] = after]
        /\ purchase' = [purchase EXCEPT
               ![id].last_payout = r.today,
               ![id].total_earned = @ + r.amount,
               ![id].payout_count = @ + 1,
               ![id].next_payout = r.next_payout]
        /\ transaction' = Append(transaction,
               TxRow(r.user_id, "income", r.amount, after))
        /\ resp' = Response(r.id, "collect_one", r.user_id, id, 200)
        /\ req' = [req EXCEPT ![w] = IdleReq]
        /\ UNCHANGED <<now, systemLog, withdrawal, dailyCheckin, dailyTask,
                       run, bulk, arrival,
                       referralBonus, deposit, user, referralLevel>>

\* POST /api/tasks/collect-all-income: the active purchases of the user whose
\* last_payout is not on the calendar day of the request; no DailyTask row is
\* read or written
CollectablePurchases(u) ==
    {i \in ActivePurchases(u) :
        purchase[i].last_payout = NoDate \/ ~SameDay(purchase[i].last_payout, now)}

CollectAllBegin(w, u) ==
    LET items == SeqOfIds(CollectablePurchases(u), 1)
    IN  /\ CanArrive
        /\ req[w].kind = "idle"
        /\ IF ActivePurchases(u) = {}
           THEN /\ Reject("collect_all", u, 0, 200)
                /\ UNCHANGED <<now, ledger, req, run, bulk>>
           ELSE IF items = <<>>
           THEN /\ Reject("collect_all", u, 0, 400)
                /\ UNCHANGED <<now, ledger, req, run, bulk>>
           ELSE /\ Arrive("collect_all", u, TotalIncome(items))
                /\ req' = [req EXCEPT ![w] =
                       [IdleReq EXCEPT !.kind = "collect_all",
                           !.id = arrival.id + 1, !.user_id = u,
                           !.amount = TotalIncome(items),
                           !.next_payout = now + H24, !.today = now,
                           !.items = items]]
                /\ UNCHANGED <<now, ledger, run, bulk, resp>>

RECURSIVE CollectEach(_, _, _, _)
\* for (const purchase of collectablePurchases) tx.purchase.update
CollectEach(items, rows, today, next_payout) ==
    IF items = <<>> THEN rows
    ELSE LET it == Head(items)
         IN  CollectEach(Tail(items),
                 [rows EXCEPT ![it.id].last_payout = today,
                              ![it.id].total_earned = @ + it.row.daily_return,
                              ![it.id].payout_count = @ + 1,
                              ![it.id].next_payout = next_payout],
                 today, next_payout)

CollectAllCommit(w) ==
    LET r == req[w]
        after == saldo[r.user_id] + r.amount
    IN  /\ r.kind = "collect_all"
        /\ saldo' = [saldo EXCEPT ![r.user_id] = after]
        /\ purchase' = CollectEach(r.items, purchase, r.today, r.next_payout)
        /\ transaction' = Append(transaction,
               TxRow(r.user_id, "income", r.amount, after))
        /\ resp' = Response(r.id, "collect_all", r.user_id, r.amount, 200)
        /\ req' = [req EXCEPT ![w] = IdleReq]
        /\ UNCHANGED <<now, systemLog, withdrawal, dailyCheckin, dailyTask,
                       run, bulk, arrival, referralBonus, deposit,
                       user, referralLevel>>

\* ------------------------------- DELETE /api/admin2/purchases/:id/cancel
\* findUnique, 404 when missing, 400 when purchase.status === 'cancelled'
CancelBegin(w, id) ==
    /\ CanArrive
    /\ req[w].kind = "idle"
    /\ IF id \notin PurchaseIds
       THEN /\ Reject("cancel", NoUser, id, 404)
            /\ UNCHANGED <<now, ledger, req, run, bulk>>
       ELSE IF purchase[id].status = "cancelled"
       THEN /\ Reject("cancel", purchase[id].user_id, id, 400)
            /\ UNCHANGED <<now, ledger, req, run, bulk>>
       ELSE /\ Arrive("cancel", purchase[id].user_id, id)
            /\ req' = [req EXCEPT ![w] =
                   [IdleReq EXCEPT !.kind = "cancel", !.id = arrival.id + 1,
                       !.user_id = purchase[id].user_id,
                       !.amount = purchase[id].amount,
                       !.items = <<[id |-> id, row |-> purchase[id]]>>]]
            /\ UNCHANGED <<now, ledger, run, bulk, resp>>

\* the prisma.$transaction body: the refund (user.update increment and the
\* purchase_refund row) when the row that was read was active, then
\* purchase.update (status cancelled, expiry_date now) and the log
CancelCommit(w) ==
    LET r == req[w]
        u == r.user_id
        id == r.items[1].id
        wasActive == r.items[1].row.status = "active"
        after == saldo[u] + r.amount
    IN  /\ r.kind = "cancel"
        /\ saldo' = IF wasActive THEN [saldo EXCEPT ![u] = after] ELSE saldo
        /\ transaction' = IF wasActive
                          THEN Append(transaction,
                                   TxRow(u, "purchase_refund", r.amount, after))
                          ELSE transaction
        /\ purchase' = [purchase EXCEPT ![id].status = "cancelled",
                                        ![id].expiry_date = now]
        /\ systemLog' = Append(systemLog,
               LogRow("PURCHASE_CANCELLED_ADMIN2", u))
        /\ resp' = Response(r.id, "cancel", u, id, 200)
        /\ req' = [req EXCEPT ![w] = IdleReq]
        /\ UNCHANGED <<now, withdrawal, dailyCheckin, dailyTask,
                       run, bulk, arrival, referralBonus, deposit,
                       user, referralLevel>>

\* ------------------------------------------ POST /api/process-daily-payouts
\* seeded fault of the due filter: the next_payout window is not looked at
IsDueNoWindow(p, t) == p.status = "active" /\ p.expiry_date > t

\* where: { status: 'active', next_payout: { lte: now }, expiry_date: { gt: now } }
IsDue(p, t) == p.status = "active" /\ p.next_payout <= t /\ p.expiry_date > t

DuePurchases(t) == {i \in PurchaseIds : IsDue(purchase[i], t)}

\* new Date(purchase.next_payout) advanced by setHours(getHours() + 24)
NextPayoutAfter(next_payout) == next_payout + H24

\* Math.floor((now - purchase.purchase_date) / (1000 * 60 * 60 * 24))
DaysPassed(t, purchase_date) == (t - purchase_date) \div H24

\* (purchase.cycle_days || 30) - daysPassed
RemainingDays(p, t) ==
    OrDefault(p.cycle_days, DefaultCycleDays) - DaysPassed(t, p.purchase_date)

EngineResponse(r) ==
    [Response(r.id, "engine", NoUser, r.totalAmount, 200) EXCEPT
        !.at = r.now, !.processed = r.processedCount,
        !.results = r.results, !.errors = r.errors]

\* the due set is read once; an empty due set is answered at once
EngineBegin(w) ==
    LET due == SeqOfIds(DuePurchases(now), 1)
    IN  /\ CanArrive
        /\ run[w].phase = "idle"
        /\ Arrive("engine", NoUser, 0)
        /\ IF due = <<>>
           THEN /\ resp' = Response(arrival.id + 1, "engine", NoUser, 0, 200)
                /\ UNCHANGED <<now, ledger, req, run, bulk>>
           ELSE /\ run' = [run EXCEPT ![w] =
                       [IdleRun EXCEPT !.phase = "loop", !.id = arrival.id + 1,
                           !.now = now, !.due = due, !.pos = 1]]
                /\ UNCHANGED <<now, ledger, req, bulk, resp>>

\* seeded fault: a throw that leaves the loop
PurchaseErrorAborting(r, id) ==
    [r EXCEPT !.pos = Len(r.due) + 1,
              !.errors = Append(@, [purchase_id |-> id])]

\* seeded fault: a failed purchase is counted as processed
PurchaseErrorCounted(r, id) ==
    [r EXCEPT !.pos = @ + 1, !.processedCount = @ + 1,
              !.errors = Append(@, [purchase_id |-> id])]

\* catch (purchaseError) inside the loop: errors.push, next iteration
PurchaseError(r, id) ==
    [r EXCEPT !.pos = @ + 1, !.errors = Append(@, [purchase_id |-> id])]

\* one iteration of  for (const purchase of duePurchases): the completion
\* branch (one purchase.update) or the prisma.$transaction body (user.update,
\* purchase.update, transaction.create, systemLog.create); a throw is caught
\* inside the loop and pushed to errors
EngineItemStep(w, failAt) ==
    LET r == run[w]
        it == r.due[r.pos]
        p == it.row
        u == p.user_id
        nextPayout == NextPayoutAfter(p.next_payout)
        dailyReturn == OrDefault(p.daily_return, DefaultDailyReturn)
        done == [Store EXCEPT !.purchase[it.id].status = "completed"]
        s1 == [Store EXCEPT !.saldo[u] = @ + dailyReturn]
        s2 == [s1 EXCEPT !.purchase[it.id].next_payout = nextPayout,
                         !.purchase[it.id].total_earned = @ + dailyReturn,
                         !.purchase[it.id].payout_count = @ + 1,
                         !.purchase[it.id].last_payout = now]
        s3 == [s2 EXCEPT !.transaction = Append(@,
                  TxRow(u, "daily_payout_auto", dailyReturn, s1.saldo[u]))]
        s4 == [s3 EXCEPT !.systemLog = Append(@, LogRow("AUTO_DAILY_PAYOUT", u))]
        failed == [run EXCEPT ![w] = PurchaseError(r, it.id)]
    IN  /\ r.phase = "loop"
        /\ r.pos <= Len(r.due)
        /\ IF RemainingDays(p, r.now) <= 0
           THEN /\ failAt \in 0..1
                /\ Install(OnClient(<<Store, done>>, failAt))
                /\ run' = IF failAt # 0 THEN failed
                          ELSE [run EXCEPT ![w].pos = @ + 1,
                                  ![w].results = Append(@,
                                      [purchase_id |-> it.id,
                                       status |-> "completed",
                                       next_payout |-> NoDate])]
           ELSE /\ failAt \in 0..4
                /\ Install(InTransaction(<<Store, s1, s2, s3, s4>>, failAt))
                /\ run' = IF failAt # 0 THEN failed
                          ELSE [run EXCEPT ![w].pos = @ + 1,
                                  ![w].processedCount = @ + 1,
                                  ![w].totalAmount = @ + dailyReturn,
                                  ![w].results = Append(@,
                                      [purchase_id |-> it.id,
                                       status |-> "success",
                                       next_payout |-> nextPayout])]
        /\ UNCHANGED <<now, req, bulk, arrival, resp, user, referralLevel>>

EngineItem(w) == EngineItemStep(w, 0)

\* the AUTO_PAYOUTS_COMPLETED log and the response
EngineFinish(w) ==
    LET r == run[w]
    IN  /\ r.phase = "loop"
        /\ r.pos > Len(r.due)
        /\ systemLog' = Append(systemLog, LogRow("AUTO_PAYOUTS_COMPLETED", NoUser))
        /\ resp' = EngineResponse(r)
        /\ run' = [run EXCEPT ![w] = IdleRun]
        /\ UNCHANGED <<now, saldo, purchase, transaction, withdrawal,
                       dailyCheckin, dailyTask, req, bulk, arrival,
                       referralBonus, deposit, user, referralLevel>>

\* ------------------------------------------------ POST /api/process-payouts
\* the same due filter; an empty due set runs the loop zero times
ProcessPayoutsBegin(w) ==
    LET due == SeqOfIds(DuePurchases(now), 1)
    IN  /\ CanArrive
        /\ run[w].phase = "idle"
        /\ Arrive("payouts", NoUser, 0)
        /\ IF due = <<>>
           THEN /\ resp' = Response(arrival.id + 1, "payouts", NoUser, 0, 200)
                /\ UNCHANGED <<now, ledger, req, run, bulk>>
           ELSE /\ run' = [run EXCEPT ![w] =
                       [IdleRun EXCEPT !.phase = "payouts", !.id = arrival.id + 1,
                           !.now = now, !.due = due, !.pos = 1]]
                /\ UNCHANGED <<now, ledger, req, bulk, resp>>

\* one iteration: nextPayout = new Date() advanced by 24 hours, the time of
\* the iteration and not the purchase's next_payout
ProcessPayoutsItem(w) ==
    LET r == run[w]
        it == r.due[r.pos]
        p == it.row
        u == p.user_id
        nextPayout == now + H24
        dailyReturn == OrDefault(p.daily_return, DefaultDailyReturn)
        after == saldo[u] + dailyReturn
    IN  /\ r.phase = "payouts"
        /\ r.pos <= Len(r.due)
        /\ IF RemainingDays(p, r.now) <= 0
           THEN /\ purchase' = [purchase EXCEPT ![it.id].status = "completed"]
                /\ run' = [run EXCEPT ![w].pos = @ + 1,
                              ![w].results = Append(@,
                                  [purchase_id |-> it.id, status |-> "completed",
                                   next_payout |-> NoDate])]
                /\ UNCHANGED <<saldo, transaction, systemLog, user, referralLevel>>
           ELSE /\ saldo' = [saldo EXCEPT ![u] = after]
                /\ purchase' = [purchase EXCEPT
                       ![it.id].next_payout = nextPayout,
                       ![it.id].total_earned = @ + dailyReturn,
                       ![it.id].payout_count = @ + 1,
                       ![it.id].last_payout = now]
                /\ transaction' = Append(transaction,
                       TxRow(u, "payout", dailyReturn, after))
                /\ systemLog' = Append(systemLog, LogRow("DAILY_PAYOUT", u))
                /\ run' = [run EXCEPT ![w].pos = @ + 1,
                              ![w].processedCount = @ + 1,
                              ![w].totalAmount = @ + dailyReturn,
                              ![w].results = Append(@,
                                  [purchase_id |-> it.id, status |-> "success",
                                   next_payout |-> nextPayout])]
        /\ UNCHANGED <<now, withdrawal, dailyCheckin, dailyTask, referralBonus,
                       deposit, req, bulk, arrival, resp, user, referralLevel>>

\* the response; this engine writes no summary log
ProcessPayoutsFinish(w) ==
    LET r == run[w]
    IN  /\ r.phase = "payouts"
        /\ r.pos > Len(r.due)
        /\ resp' = [Response(r.id, "payouts", NoUser, r.totalAmount, 200) EXCEPT
                       !.processed = r.processedCount, !.results = r.results]
        /\ run' = [run EXCEPT ![w] = IdleRun]
        /\ UNCHANGED <<now, ledger, req, bulk, arrival>>

\* ------------------------------------ POST /api/admin2/users/bulk-balance
\* the operations list is read one item per iteration; length items follow
BulkBegin(length) ==
    /\ CanArrive
    /\ bulk.phase = "idle"
    /\ arrival.id + 1 + length <= MaxArrivals
    /\ IF length = 0
       THEN /\ Reject("bulk", NoUser, length, 400)
            /\ UNCHANGED <<now, ledger, req, run, bulk>>
       ELSE /\ Arrive("bulk", NoUser, length)
            /\ bulk' = [IdleBulk EXCEPT !.phase = "loop", !.id = arrival.id + 1,
                           !.length = length, !.pos = 1]
            /\ UNCHANGED <<now, ledger, req, run, resp>>

BulkOp(action) ==
    CASE action = "add" -> "bulk_add"
      [] action = "deduct" -> "bulk_deduct"
      [] action = "set" -> "bulk_set"
      [] OTHER -> "bulk_other"

BulkError(u) == [user_id |-> u, success |-> FALSE]
BulkResult(u) == [user_id |-> u, success |-> TRUE]

\* seeded fault: a failing item ends the loop
BulkFailedAborting(b, u) ==
    [b EXCEPT !.pos = b.length + 1, !.errors = Append(@, BulkError(u))]

\* errors.push({ user_id, error }) and continue, or the catch of the item
BulkFailed(b, u) ==
    [b EXCEPT !.pos = @ + 1, !.errors = Append(@, BulkError(u))]

\* one iteration of  for (const op of operations)  with op = {user_id, action,
\* amount}: findUnique, user.update and transaction.create are awaited on the
\* client one after another inside the try / catch of the item; failAt is the
\* one of the three that throws
BulkItemStep(u, action, amount, failAt) ==
    LET fail == /\ bulk' = BulkFailed(bulk, u)
                /\ UNCHANGED <<now, ledger, req, run, resp>>
        done(newSaldo, type, delta) ==
            LET s1 == [Store EXCEPT !.saldo[u] = newSaldo]
                s2 == [s1 EXCEPT !.transaction =
                          Append(@, TxRow(u, type, delta, newSaldo))]
            IN  /\ Install(OnClient(<<Store, Store, s1, s2>>, failAt))
                /\ bulk' = IF failAt = 0
                           THEN [bulk EXCEPT !.pos = @ + 1,
                                    !.results = Append(@, BulkResult(u))]
                           ELSE BulkFailed(bulk, u)
                /\ UNCHANGED <<now, req, run, resp, user, referralLevel>>
    IN  /\ bulk.phase = "loop"
        /\ bulk.pos <= bulk.length
        /\ failAt \in 0..3
        /\ Arrive(BulkOp(action), u, amount)
        /\ IF amount <= 0
           THEN failAt = 0 /\ fail
           ELSE IF failAt = 1
           THEN fail
           ELSE CASE action = "add" ->
                     done(saldo[u] + amount, "admin_addition", amount)
                  [] action = "deduct" ->
                     IF InsufficientFunds(saldo[u], amount)
                     THEN failAt = 0 /\ fail
                     ELSE done(saldo[u] - amount, "admin_deduction", -amount)
                  [] action = "set" ->
                     done(amount, AdjustmentType(amount - saldo[u]),
                          amount - saldo[u])
                  [] OTHER -> failAt = 0 /\ fail

BulkItem(u, action, amount) == BulkItemStep(u, action, amount, 0)

\* the BULK_BALANCE_ADJUSTMENT log and the response
BulkFinish ==
    /\ bulk.phase = "loop"
    /\ bulk.pos > bulk.length
    /\ systemLog' = Append(systemLog, LogRow("BULK_BALANCE_ADJUSTMENT", NoUser))
    /\ resp' = [Response(bulk.id, "bulk", NoUser, bulk.length, 200) EXCEPT
                   !.results = bulk.results, !.errors = bulk.errors]
    /\ bulk' = IdleBulk
    /\ UNCHANGED <<now, saldo, purchase, transaction, withdrawal,
                   dailyCheckin, dailyTask, req, run, arrival,
                       referralBonus, deposit, user, referralLevel>>

\* ---------------------------------------------------------- specifications
\* Requests served one after another use the first worker only.
FirstWorker == CHOOSE w \in Workers : \A v \in Workers : w <= v

InFlightStep ==
    \/ PurchaseCommit(FirstWorker)
    \/ PurchaseFinish(FirstWorker, NoFault)
    \/ WithdrawCommit(FirstWorker)
    \/ DeductCommit(FirstWorker)
    \/ AddBalanceCommit(FirstWorker)
    \/ SetBalanceCommit(FirstWorker)
    \/ CollectCommit(FirstWorker)
    \/ SimulateCollectCommit(FirstWorker)
    \/ CollectOneCommit(FirstWorker)
    \/ EngineItem(FirstWorker)
    \/ EngineFinish(FirstWorker)
    \/ \E u \in Users, action \in BulkActions :
           BulkItem(u, action, PaidAmount)
    \/ BulkFinish

\* every balance-affecting handler, one request at a time
Next ==
    \/ AllIdle /\ Tick(H24)
    \/ AllIdle /\ \E u \in Users : Checkin(u)
    \/ AllIdle /\ \E u \in Users : DailyCheckinTask(u)
    \/ AllIdle /\ \E u \in Users :
           PurchaseBegin(FirstWorker, u, PaidAmount, 0, 0)
    \/ AllIdle /\ \E u \in Users :
           WithdrawBegin(FirstWorker, u, PaidAmount, TRUE)
    \/ AllIdle /\ \E u \in Users :
           DeductBegin(FirstWorker, u, PaidAmount)
    \/ AllIdle /\ \E u \in Users :
           AddBalanceBegin(FirstWorker, u, PaidAmount)
    \/ AllIdle /\ \E u \in Users, new_balance \in SetBalances :
           SetBalanceBegin(FirstWorker, u, new_balance)
    \/ AllIdle /\ \E u \in Users : CollectBegin(FirstWorker, u)
    \/ AllIdle /\ \E u \in Users : SimulateCollectBegin(FirstWorker, u)
    \/ AllIdle /\ \E u \in Users, product_id \in 1..MaxArrivals :
           CollectOneBegin(FirstWorker, u, product_id)
    \/ AllIdle /\ EngineBegin(FirstWorker)
    \/ AllIdle /\ \E length \in 0..MaxArrivals : BulkBegin(length)
    \/ InFlightStep

Spec == Init /\ [][Next]_vars

\* a request is picked up by the lowest worker that is free
FreeWorker(w) ==
    /\ req[w].kind = "idle" /\ run[w].phase = "idle"
    /\ \A v \in Workers : v < w => ~(req[v].kind = "idle" /\ run[v].phase = "idle")

\* purchase, withdrawal and admin deduction requests, overlapping
NextDebit ==
    \/ \E w \in Workers, u \in Users, amount \in PurchaseAmounts :
           FreeWorker(w) /\ PurchaseBegin(w, u, amount, 0, 0)
    \/ \E w \in Workers : PurchaseCommit(w)
    \/ \E w \in Workers : PurchaseFinish(w, NoFault)
    \/ \E w \in Workers, u \in Users, amount \in WithdrawAmounts,
          bankInfo \in BOOLEAN :
           FreeWorker(w) /\ WithdrawBegin(w, u, amount, bankInfo)
    \/ \E w \in Workers : WithdrawCommit(w)
    \/ \E w \in Workers, u \in Users, amount \in AdminAmounts :
           FreeWorker(w) /\ DeductBegin(w, u, amount)
    \/ \E w \in Workers : DeductCommit(w)

SpecDebit == Init /\ [][NextDebit]_vars

\* admin deductions, single and bulk items, overlapping
NextAdmin ==
    \/ \E w \in Workers, u \in Users, amount \in OverdrawAmounts :
           FreeWorker(w) /\ DeductBegin(w, u, amount)
    \/ \E w \in Workers : DeductCommit(w)
    \/ \E length \in 0..MaxArrivals : BulkBegin(length)
    \/ \E u \in Users, action \in {"add", "deduct"}, amount \in OverdrawAmounts :
           BulkItem(u, action, amount)
    \/ BulkFinish

SpecAdmin == Init /\ [][NextAdmin]_vars

\* the Purchase Workflow and the Payout Engine under an advancing clock,
\* one request at a time
NextPayout ==
    \/ AllIdle /\ \E d \in ClockSteps : Tick(d)
    \/ AllIdle /\ \E u \in Users, cycle_days \in CycleDayChoices :
           PurchaseBegin(FirstWorker, u, PaidAmount, 0, cycle_days)
    \/ PurchaseCommit(FirstWorker)
    \/ PurchaseFinish(FirstWorker, NoFault)
    \/ AllIdle /\ EngineBegin(FirstWorker)
    \/ EngineItem(FirstWorker)
    \/ EngineFinish(FirstWorker)

SpecPayout == Init /\ [][NextPayout]_vars

\* the cron trigger and a manual invocation of the Payout Engine may overlap
NextOverlap ==
    \/ AllIdle /\ \E d \in ClockSteps : Tick(d)
    \/ AllIdle /\ \E u \in Users, cycle_days \in CycleDayChoices :
           PurchaseBegin(FirstWorker, u, PaidAmount, 0, cycle_days)
    \/ PurchaseCommit(FirstWorker)
    \/ PurchaseFinish(FirstWorker, NoFault)
    \/ \E w \in Workers : EngineBegin(w)
    \/ \E w \in Workers : EngineItem(w)
    \/ \E w \in Workers : EngineFinish(w)

SpecOverlap == Init /\ [][NextOverlap]_vars

\* every path that credits daily_return, one request at a time
NextCredit ==
    \/ AllIdle /\ \E d \in ClockSteps : Tick(d)
    \/ AllIdle /\ \E u \in Users, cycle_days \in CycleDayChoices :
           PurchaseBegin(FirstWorker, u, PaidAmount, 0, cycle_days)
    \/ PurchaseCommit(FirstWorker)
    \/ PurchaseFinish(FirstWorker, NoFault)
    \/ AllIdle /\ EngineBegin(FirstWorker)
    \/ EngineItem(FirstWorker)
    \/ EngineFinish(FirstWorker)
    \/ AllIdle /\ \E u \in Users : CollectBegin(FirstWorker, u)
    \/ CollectCommit(FirstWorker)
    \/ AllIdle /\ \E u \in Users : SimulateCollectBegin(FirstWorker, u)
    \/ SimulateCollectCommit(FirstWorker)
    \/ AllIdle /\ \E u \in Users, product_id \in 1..MaxArrivals :
           CollectOneBegin(FirstWorker, u, product_id)
    \/ CollectOneCommit(FirstWorker)

SpecCredit == Init /\ [][NextCredit]_vars

\* purchases by accounts at every depth of the invitation chain, one at a time
NextReferral ==
    \/ AllIdle /\ \E u \in Accounts, amount \in ReferralAmounts :
           PurchaseBegin(FirstWorker, u, amount, 0, 0)
    \/ PurchaseCommit(FirstWorker)
    \/ PurchaseFinish(FirstWorker, NoFault)

SpecReferral == Init /\ [][NextReferral]_vars

\* the admin adjustments (add, deduct, set, bulk) of one account or another,
\* overlapping
NextAdjust ==
    \/ \E w \in Workers, u \in Users :
           FreeWorker(w) /\ AddBalanceBegin(w, u, PaidAmount)
    \/ \E w \in Workers : AddBalanceCommit(w)
    \/ \E w \in Workers, u \in Users :
           FreeWorker(w) /\ DeductBegin(w, u, PaidAmount)
    \/ \E w \in Workers : DeductCommit(w)
    \/ \E w \in Workers, u \in Users, new_balance \in SetBalances :
           FreeWorker(w) /\ SetBalanceBegin(w, u, new_balance)
    \/ \E w \in Workers : SetBalanceCommit(w)
    \/ \E length \in 0..MaxArrivals : BulkBegin(length)
    \/ \E u \in Users, action \in BulkActions : BulkItem(u, action, PaidAmount)
    \/ BulkFinish

SpecAdjust == Init /\ [][NextAdjust]_vars

\* purchases and the two income collection routes of the user, one request
\* at a time, under an advancing clock
NextCollect ==
    \/ AllIdle /\ \E d \in ClockSteps : Tick(d)
    \/ AllIdle /\ \E u \in Users :
           PurchaseBegin(FirstWorker, u, PaidAmount, 0, 0)
    \/ PurchaseCommit(FirstWorker)
    \/ PurchaseFinish(FirstWorker, NoFault)
    \/ AllIdle /\ \E u \in Users : CollectBegin(FirstWorker, u)
    \/ CollectCommit(FirstWorker)
    \/ AllIdle /\ \E u \in Users : CollectAllBegin(FirstWorker, u)
    \/ CollectAllCommit(FirstWorker)

SpecCollect == Init /\ [][NextCollect]_vars

\* the life of a purchase: bought, collected per product, served by the
\* Payout Engine and cancelled by an admin, one request at a time
NextLifecycle ==
    \/ AllIdle /\ \E d \in ClockSteps : Tick(d)
    \/ AllIdle /\ \E cycle_days \in CycleDayChoices :
           PurchaseBegin(FirstWorker, FirstWorker, PaidAmount, 0, cycle_days)
    \/ PurchaseCommit(FirstWorker)
    \/ PurchaseFinish(FirstWorker, NoFault)
    \/ AllIdle /\ \E id \in 1..MaxArrivals :
           CollectOneBegin(FirstWorker, FirstWorker, id)
    \/ CollectOneCommit(FirstWorker)
    \/ AllIdle /\ EngineBegin(FirstWorker)
    \/ EngineItem(FirstWorker)
    \/ EngineFinish(FirstWorker)
    \/ AllIdle /\ \E id \in 1..MaxArrivals : CancelBegin(FirstWorker, id)
    \/ CancelCommit(FirstWorker)

SpecLifecycle == Init /\ [][NextLifecycle]_vars

\* bulk balance requests with a store that may throw at any statement of an
\* item
NextBulkFaults ==
    \/ \E length \in 0..MaxArrivals : BulkBegin(length)
    \/ \E u \in Users, action \in BulkActions, amount \in AdminAmounts,
          failAt \in 0..3 : BulkItemStep(u, action, amount, failAt)
    \/ BulkFinish

SpecBulkFaults == Init /\ [][NextBulkFaults]_vars

\* the Purchase Workflow and the two payout engines under an advancing
\* clock, one request at a time
NextEngines ==
    \/ AllIdle /\ \E d \in ClockSteps : Tick(d)
    \/ AllIdle /\ \E cycle_days \in CycleDayChoices :
           PurchaseBegin(FirstWorker, FirstWorker, PaidAmount, 0, cycle_days)
    \/ PurchaseCommit(FirstWorker)
    \/ PurchaseFinish(FirstWorker, NoFault)
    \/ AllIdle /\ EngineBegin(FirstWorker)
    \/ EngineItem(FirstWorker)
    \/ EngineFinish(FirstWorker)
    \/ AllIdle /\ ProcessPayoutsBegin(FirstWorker)
    \/ ProcessPayoutsItem(FirstWorker)
    \/ ProcessPayoutsFinish(FirstWorker)

SpecEngines == Init /\ [][NextEngines]_vars

\* the Payout Engine has answered a run started at the present time
ServedNow == resp.op = "engine" /\ resp.at = now

\* purchases served only by on-time runs of the Payout Engine: the clock
\* moves in steps of 24h, and once a purchase is older than the present time
\* it moves only after a run at the present time has answered
NextOnTime ==
    \/ /\ AllIdle
       /\ ServedNow \/ \A id \in PurchaseIds : purchase[id].purchase_date = now
       /\ Tick(H24)
    \/ AllIdle /\ \E u \in Users, cycle_days \in CycleDayChoices :
           PurchaseBegin(FirstWorker, u, PaidAmount, 0, cycle_days)
    \/ PurchaseCommit(FirstWorker)
    \/ PurchaseFinish(FirstWorker, NoFault)
    \/ AllIdle /\ EngineBegin(FirstWorker)
    \/ EngineItem(FirstWorker)
    \/ EngineFinish(FirstWorker)

SpecOnTime == Init /\ [][NextOnTime]_vars

\* a Payout Engine run and admin cancellations of purchases, overlapping
NextCancelRace ==
    \/ AllIdle /\ \E d \in ClockSteps : Tick(d)
    \/ AllIdle /\ \E u \in Users :
           PurchaseBegin(FirstWorker, u, PaidAmount, 0, 0)
    \/ PurchaseCommit(FirstWorker)
    \/ PurchaseFinish(FirstWorker, NoFault)
    \/ req[FirstWorker].kind # "purchase" /\ EngineBegin(FirstWorker)
    \/ EngineItem(FirstWorker)
    \/ EngineFinish(FirstWorker)
    \/ \E w \in Workers, id \in 1..MaxArrivals :
           FreeWorker(w) /\ purchase # <<>> /\ CancelBegin(w, id)
    \/ \E w \in Workers : CancelCommit(w)

SpecCancelRace == Init /\ [][NextCancelRace]_vars


\* withdrawal requests and their approval and rejection by admins, one
\* request at a time
NextWithdrawal ==
    \/ AllIdle /\ \E u \in Users, amount \in WithdrawAmounts :
           WithdrawBegin(FirstWorker, u, amount, TRUE)
    \/ WithdrawCommit(FirstWorker)
    \/ AllIdle /\ \E id \in 1..MaxArrivals : WithdrawalApprove(id)
    \/ AllIdle /\ \E id \in 1..MaxArrivals : WithdrawalReject(id)

SpecWithdrawal == Init /\ [][NextWithdrawal]_vars


\* purchase requests, one at a time, with a store that may throw at any
\* statement of the main transaction and at the statements after it
NextPurchaseFaults ==
    \/ AllIdle /\ \E u \in Users :
           PurchaseBegin(FirstWorker, u, PaidAmount, 0, 0)
    \/ PurchaseCommit(FirstWorker)
    \/ \E failAt \in 1..3 : PurchaseAbort(FirstWorker, failAt)
    \/ PurchaseFinish(FirstWorker, NoFault)
    \/ \E stmt \in 1..2 : PurchaseFinishThrew(FirstWorker, stmt)

SpecPurchaseFaults == Init /\ [][NextPurchaseFaults]_vars


\* purchase requests with any amount the body may carry, one at a time
NextSigned ==
    \/ AllIdle /\ \E u \in Users, amount \in SignedAmounts :
           PurchaseBegin(FirstWorker, u, amount, 0, 0)
    \/ PurchaseCommit(FirstWorker)
    \/ PurchaseFinish(FirstWorker, NoFault)

SpecSigned == Init /\ [][NextSigned]_vars


\* every path that credits income for a purchase, one request at a time:
\* the Payout Engine, the income collection of a user, its simulation by an
\* admin and the collection for one product
NextEarned ==
    \/ AllIdle /\ Tick(H24)
    \/ AllIdle /\ \E u \in Users, daily_return \in DailyReturnChoices :
           PurchaseBegin(FirstWorker, u, PaidAmount, daily_return, 0)
    \/ PurchaseCommit(FirstWorker)
    \/ PurchaseFinish(FirstWorker, NoFault)
    \/ AllIdle /\ EngineBegin(FirstWorker)
    \/ EngineItem(FirstWorker)
    \/ EngineFinish(FirstWorker)
    \/ AllIdle /\ \E u \in Users : CollectBegin(FirstWorker, u)
    \/ CollectCommit(FirstWorker)
    \/ AllIdle /\ \E u \in Users : SimulateCollectBegin(FirstWorker, u)
    \/ SimulateCollectCommit(FirstWorker)
    \/ AllIdle /\ \E u \in Users, product_id \in 1..MaxArrivals :
           CollectOneBegin(FirstWorker, u, product_id)
    \/ CollectOneCommit(FirstWorker)

SpecEarned == Init /\ [][NextEarned]_vars


\* registrations and admin deletions of users, one request at a time, with a
\* store that may throw at any statement of createReferralNetwork; at the
\* start only the first account is registered
InitNetwork ==
    /\ now = 0
    /\ saldo = [u \in Accounts |-> InitialSaldo]
    /\ purchase = <<>>
    /\ transaction = <<>>
    /\ systemLog = <<>>
    /\ withdrawal = <<>>
    /\ dailyCheckin = {}
    /\ dailyTask = {}
    /\ referralBonus = <<>>
    /\ deposit = <<>>
    /\ user = [u \in Accounts |->
                  [status |-> IF u = 1 THEN "active" ELSE "none",
                   inviter_id |-> NoUser]]
    /\ referralLevel = {}
    /\ req = [w \in Workers |-> IdleReq]
    /\ run = [w \in Workers |-> IdleRun]
    /\ bulk = IdleBulk
    /\ arrival = NoArrival
    /\ resp = NoResponse

NextNetwork ==
    \/ \E inviterId \in {NoUser} \cup Accounts, failAt \in 0..5 :
           Register(inviterId, failAt)
    \/ \E id \in Accounts : DeleteUser(id)

SpecNetwork == InitNetwork /\ [][NextNetwork]_vars


\* the Payout Engine next to purchases, deposit requests and withdrawal
\* requests of several accounts, one request at a time
NextFrame ==
    \/ AllIdle /\ Tick(H24)
    \/ AllIdle /\ \E u \in Users :
           PurchaseBegin(FirstWorker, u, PaidAmount, 0, 0)
    \/ PurchaseCommit(FirstWorker)
    \/ PurchaseFinish(FirstWorker, NoFault)
    \/ AllIdle /\ \E u \in Users, amount \in DepositAmounts :
           DepositRequest(u, amount, TRUE)
    \/ AllIdle /\ \E u \in Users :
           WithdrawBegin(FirstWorker, u, PaidAmount, TRUE)
    \/ WithdrawCommit(FirstWorker)
    \/ AllIdle /\ EngineBegin(FirstWorker)
    \/ EngineItem(FirstWorker)
    \/ EngineFinish(FirstWorker)

SpecFrame == Init /\ [][NextFrame]_vars

\* deposit requests and their approval and rejection by admins, overlapping
NextDeposit ==
    \/ \E u \in Users, amount \in DepositAmounts :
           DepositRequest(u, amount, TRUE)
    \/ \E w \in Workers, id \in 1..MaxArrivals :
           FreeWorker(w) /\ DepositApproveBegin(w, id)
    \/ \E w \in Workers : DepositApproveCommit(w)
    \/ \E id \in 1..MaxArrivals : DepositReject(id)

SpecDeposit == Init /\ [][NextDeposit]_vars

\* the Purchase Workflow and the Payout Engine, one request at a time, with
\* a store that may throw at any statement of a loop iteration
NextPayoutFaults ==
    \/ AllIdle /\ Tick(H24)
    \/ AllIdle /\ \E u \in Users, cycle_days \in CycleDayChoices :
           PurchaseBegin(FirstWorker, u, PaidAmount, 0, cycle_days)
    \/ PurchaseCommit(FirstWorker)
    \/ PurchaseFinish(FirstWorker, NoFault)
    \/ AllIdle /\ EngineBegin(FirstWorker)
    \/ \E failAt \in 0..4 : EngineItemStep(FirstWorker, failAt)
    \/ EngineFinish(FirstWorker)

SpecPayoutFaults == Init /\ [][NextPayoutFaults]_vars

\* purchases by accounts with a full up-line, with a store that may throw in
\* the distributor: at findMany or at any statement of any level
NextReferralFaults ==
    \/ AllIdle /\ \E u \in ReferralBuyers :
           PurchaseBegin(FirstWorker, u, PaidAmount, 0, 0)
    \/ PurchaseCommit(FirstWorker)
    \/ \E fault \in DistributorFaults : PurchaseFinish(FirstWorker, fault)

SpecReferralFaults == Init /\ [][NextReferralFaults]_vars

\* the operations that pair a balance change with a Transaction row and a
\* SystemLog row, one request at a time, with a store that may throw at any
\* statement of a transaction body
NextAtomic ==
    \/ AllIdle /\ Tick(H24)
    \/ AllIdle /\ PurchaseBegin(FirstWorker, FirstWorker, PaidAmount, 0, 0)
    \/ PurchaseCommit(FirstWorker)
    \/ PurchaseFinish(FirstWorker, NoFault)
    \/ AllIdle /\ EngineBegin(FirstWorker)
    \/ \E failAt \in 0..4 : EngineItemStep(FirstWorker, failAt)
    \/ EngineFinish(FirstWorker)
    \/ AllIdle /\ \E u \in Users : AddBalanceBegin(FirstWorker, u, PaidAmount)
    \/ \E failAt \in 0..3 : AddBalanceTransaction(FirstWorker, failAt)
    \/ AllIdle /\ \E u \in Users : DeductBegin(FirstWorker, u, PaidAmount)
    \/ \E failAt \in 0..3 : DeductTransaction(FirstWorker, failAt)
    \/ AllIdle /\ \E u \in Users :
           WithdrawBegin(FirstWorker, u, PaidAmount, TRUE)
    \/ \E failAt \in 0..4 : WithdrawTransaction(FirstWorker, failAt)
    \/ AllIdle /\ \E u \in Users, amount \in DepositAmounts :
           DepositRequest(u, amount, TRUE)
    \/ AllIdle /\ \E id \in 1..MaxArrivals :
           DepositApproveBegin(FirstWorker, id)
    \/ \E failAt \in 0..4 : DepositApproveTransaction(FirstWorker, failAt)

SpecAtomic == Init /\ [][NextAtomic]_vars

\* ------------------------------------------------------------------ claims
\* C1: every change to an account's balance comes with exactly one new
\* Transaction row of that account, whose balance_after is the balance right
\* after the change.
C1_EveryChangeHasOneTransactionRow ==
    [][\A u \in Users :
          saldo'[u] # saldo[u] =>
              LET before == RowsOf(u)
                  after == RowsOf(u)'
              IN  /\ Len(after) = Len(before) + 1
                  /\ after[Len(after)].balance_after = saldo'[u]]_vars

\* C2: with requests served one after another, for every account the sum of
\* amount over its Transaction rows equals its balance minus the balance it was
\* created with.
C2_TransactionsSumToBalance ==
    AllIdle =>
        \A u \in Users : SumAmounts(RowsOf(u)) = saldo[u] - InitialSaldo

\* C3: whatever the interleaving of purchase, withdrawal and deduct-balance
\* requests, no account balance is ever below zero.
C3_BalanceNeverNegative == \A u \in Users : saldo[u] >= 0

\* the step in which a request of one of the kinds ops reaches its handler
\* asking for more than the balance the account holds at that moment
AsksMoreThanBalance(ops) ==
    /\ arrival'.id = arrival.id + 1
    /\ arrival'.op \in ops
    /\ arrival'.amount > saldo[arrival'.user_id]

RejectedNow ==
    /\ resp'.id = arrival'.id
    /\ resp'.status = 400
    /\ req' = req

\* C4: a purchase or withdrawal request for more than the current balance is
\* rejected and leaves the balance, the Purchase and Withdrawal rows, the
\* Transaction rows and the SystemLog as they were.
C4_OverdrawRejectedWithoutMutation ==
    [][AsksMoreThanBalance({"purchase", "withdraw"}) =>
          /\ RejectedNow
          /\ UNCHANGED <<saldo, purchase, withdrawal, transaction, systemLog>>]_vars

\* C4 witness: a purchase of more than the balance has just been answered 400
C4_OverdrawRejected ==
    /\ resp.op = "purchase"
    /\ resp.id = arrival.id
    /\ resp.status = 400
    /\ resp.amount > saldo[resp.user_id]
    /\ purchase = <<>> /\ transaction = <<>>

\* C5: an admin deduction, single or a bulk 'deduct' item, for more than the
\* current balance is rejected (status 400, or an entry of the bulk errors),
\* leaves the balance unchanged and creates no Transaction row.
C5_AdminOverdrawRejected ==
    [][AsksMoreThanBalance({"deduct", "bulk_deduct"}) =>
          /\ IF arrival'.op = "deduct"
             THEN RejectedNow
             ELSE /\ bulk'.errors =
                         Append(bulk.errors, BulkError(arrival'.user_id))
                  /\ bulk'.results = bulk.results
          /\ UNCHANGED <<saldo, transaction>>]_vars

\* C5 witness: a single deduction of more than the balance was answered 400,
\* and a bulk 'deduct' item of more than the balance is now in the bulk errors
C5_BothDeductionsRejected ==
    /\ resp.op = "deduct"
    /\ resp.status = 400
    /\ resp.amount > saldo[resp.user_id]
    /\ arrival.op = "bulk_deduct"
    /\ arrival.amount > saldo[arrival.user_id]
    /\ bulk.phase = "loop"
    /\ bulk.errors = <<BulkError(arrival.user_id)>>
    /\ transaction = <<>>

\* worker w serves a Payout Engine run that arrived right after the previous
\* run was answered, with no clock advance in between
SecondRunInSuccession(w) ==
    /\ run[w].phase = "loop"
    /\ resp.op = "engine"
    /\ resp.id + 1 = run[w].id
    /\ resp.at = run[w].now

C7_OverlapCreditsOncePerWindow ==
    [][\A i \in 1..Len(purchase) :
          purchase'[i].payout_count > purchase[i].payout_count =>
              purchase'[i].next_payout > purchase[i].next_payout]_vars

\* C8: over all credit paths together a purchase is credited at most once per
\* 24h window: it never holds more credits than 24h windows begun since its
\* purchase.
C8_OneCreditPerWindow ==
    \A i \in PurchaseIds :
        purchase[i].payout_count <=
            DaysPassed(now, purchase[i].purchase_date) + 1

\* C9: once a Payout Engine run has been answered at or after the end of a
\* purchase's cycle_days, that purchase is completed.
C9_CompletedAfterCycle ==
    \A i \in PurchaseIds :
        (/\ resp.op = "engine"
         /\ resp.id = arrival.id
         /\ resp.at >= purchase[i].purchase_date + purchase[i].cycle_days * H24)
            => purchase[i].status = "completed"

\* C10: every purchase has payout_count <= cycle_days.
C10_PayoutCountWithinCycle ==
    \A i \in PurchaseIds : purchase[i].payout_count <= purchase[i].cycle_days

\* the k-th inviter up the chain of account u (NoUser above the top)
RECURSIVE Upline(_, _)
Upline(u, k) == IF k = 0 \/ u = NoUser THEN u ELSE Upline(Inviter(u), k - 1)

\* C11: one purchase credits referral bonuses to at most 3 accounts, all among
\* the 1st, 2nd and 3rd inviters of the purchaser; inviters at depth 4 or more
\* receive nothing.
C11_BonusesReachThreeLevels ==
    [][\A w \in Workers :
          req[w].kind = "purchase_bonus" =>
              LET credited == {a \in Accounts : saldo'[a] # saldo[a]}
              IN  /\ credited \subseteq {Upline(req[w].user_id, k) : k \in 1..3}
                  /\ Cardinality(credited) <= 3]_vars

\* C11 witness: a purchase by the account with an up-line of depth 5 has paid
\* three bonuses, and the accounts at depth 4 and 5 hold what they started with
C11_DepthFivePurchaseDone ==
    /\ resp.op = "purchase" /\ resp.status = 200
    /\ Upline(resp.user_id, 5) # NoUser
    /\ Len(resp.results) = 3
    /\ saldo[Upline(resp.user_id, 4)] = InitialSaldo
    /\ saldo[Upline(resp.user_id, 5)] = InitialSaldo

\* C12: the transaction of a successful purchase of A by an account holding
\* B >= A leaves the balance B - A, appends one Purchase row (active,
\* payout_count 0, total_earned 0, next_payout = now + 24h, expiry_date = now +
\* cycle_days days) and appends one Transaction (purchase, -A, balance_after
\* B - A).
C12_PurchasePostconditions ==
    [][\A w \in Workers :
          (req[w].kind = "purchase" /\ req'[w].kind = "purchase_bonus") =>
              LET u == req[w].user_id
                  A == req[w].amount
                  B == saldo[u]
                  p == purchase'[Len(purchase')]
                  t == transaction'[Len(transaction')]
              IN  /\ B >= A
                  /\ saldo' = [saldo EXCEPT ![u] = B - A]
                  /\ Len(purchase') = Len(purchase) + 1
                  /\ SubSeq(purchase', 1, Len(purchase)) = purchase
                  /\ p.user_id = u /\ p.amount = A
                  /\ p.status = "active"
                  /\ p.payout_count = 0 /\ p.total_earned = 0
                  /\ p.next_payout = now + 24
                  /\ p.expiry_date = now + p.cycle_days * 24
                  /\ Len(transaction') = Len(transaction) + 1
                  /\ SubSeq(transaction', 1, Len(transaction)) = transaction
                  /\ t = [user_id |-> u, type |-> "purchase", amount |-> -A,
                          balance_after |-> B - A]]_vars

\* C12 witness: the transaction of a purchase with a 3 day cycle has committed
C12_PurchaseCommitted ==
    /\ req[FirstWorker].kind = "purchase_bonus"
    /\ purchase # <<>>
    /\ purchase[Len(purchase)].cycle_days = 3
    /\ purchase[Len(purchase)].purchase_date > 0
    /\ saldo[req[FirstWorker].user_id] = InitialSaldo - req[FirstWorker].amount

\* the rows of a table appended by the step
Appended(before, after) == SubSeq(after, Len(before) + 1, Len(after))

\* C13: for a purchase of A the sponsor at level 1 is credited floor(A*25/100),
\* at level 2 floor(A*2/100), at level 3 floor(A*1/100), each rounded down on
\* its own; a level whose bonus is 0 gets no credit, no Transaction and no
\* ReferralBonus row, any other level one of each.
C13_BonusPerLevel ==
    [][\A w \in Workers :
          req[w].kind = "purchase_bonus" =>
              \A l \in 1..3 :
                  LET s == Upline(req[w].user_id, l)
                      A == req[w].amount
                      e == CASE l = 1 -> (A * 25) \div 100
                             [] l = 2 -> (A * 2) \div 100
                             [] l = 3 -> (A * 1) \div 100
                      txs == SelectSeq(Appended(transaction, transaction'),
                                 LAMBDA r : r.user_id = s)
                      rbs == SelectSeq(Appended(referralBonus, referralBonus'),
                                 LAMBDA r : r.referrer_id = s)
                  IN  s # NoUser =>
                        /\ saldo'[s] = saldo[s] + e
                        /\ IF e = 0
                           THEN txs = <<>> /\ rbs = <<>>
                           ELSE /\ txs = <<TxRow(s, "referral_bonus", e,
                                                 saldo[s] + e)>>
                                /\ Len(rbs) = 1
                                /\ rbs[1].level = l
                                /\ rbs[1].bonus_amount = e
                                /\ rbs[1].referred_user_id =
                                       req[w].user_id]_vars

\* C13 witness: a purchase of 40 by an account with three sponsors paid only
\* level 1 (10; 0.8 and 0.4 round down to 0), after an earlier purchase paid
\* all three levels
C13_SmallPurchasePaidOneLevel ==
    /\ resp.op = "purchase" /\ resp.status = 200
    /\ resp.amount = 40
    /\ Upline(resp.user_id, 3) # NoUser
    /\ Len(resp.results) = 1
    /\ resp.results[1].amount = 10
    /\ \E i \in 1..Len(referralBonus) : referralBonus[i].level = 3

\* a step that runs the transaction body of add-balance, deduct-balance,
\* withdraw or deposit approval, or one payout credit of the engine
TransactionStepOf(w) ==
    \/ /\ req[w].kind \in {"add", "deduct", "withdraw", "approve"}
       /\ req'[w].kind = "idle"
    \/ /\ run[w].phase = "loop"
       /\ run[w].pos <= Len(run[w].due)
       /\ run'[w].pos = run[w].pos + 1
       /\ RemainingDays(run[w].due[run[w].pos].row, run[w].now) > 0

\* the store threw inside that transaction body
StoreFailedIn(w) ==
    \/ /\ req[w].kind # "idle"
       /\ \E i \in 1..Len(resp'.errors) : resp'.errors[i].at = "transaction"
    \/ /\ run[w].phase = "loop"
       /\ Len(run'[w].errors) > Len(run[w].errors)

\* C14: in add-balance, deduct-balance, a payout credit, a withdrawal request
\* and a deposit approval, the balance change, the Transaction row and the
\* SystemLog row land together; when the store throws at any statement of the
\* transaction body, none of the three is visible afterwards
C14_AllThreeOrNone ==
    [][\A w \in Workers : TransactionStepOf(w) =>
          IF StoreFailedIn(w)
          THEN /\ saldo' = saldo
               /\ transaction' = transaction
               /\ systemLog' = systemLog
          ELSE /\ saldo' # saldo
               /\ Len(transaction') = Len(transaction) + 1
               /\ Len(systemLog') = Len(systemLog) + 1]_vars

\* a deposit approval whose transaction body threw after the balance statement
C14_ApprovalFailedAfterCredit ==
    /\ resp.op = "approve"
    /\ resp.errors # <<>>
    /\ resp.errors[1].at = "transaction"
    /\ resp.errors[1].stmt >= 2
    /\ \E id \in 1..Len(deposit) :
          /\ resp.amount = id
          /\ deposit[id].status = "pending"
          /\ saldo[deposit[id].user_id] = InitialSaldo
    /\ transaction = <<>>

\* the fault the store raised in the distributor during this step
FaultOf(w) ==
    IF req[w].kind = "purchase_bonus" /\ resp'.errors # <<>>
    THEN resp'.errors[1] ELSE NoFault

\* C15: at each referral level the sponsor's credit, the referral_bonus
\* Transaction row and the ReferralBonus row are one atomic unit: whatever the
\* store does, no sponsor's balance is raised without both rows being written
C15_CreditHasBothRows ==
    [][\A w \in Workers :
          req[w].kind = "purchase_bonus" =>
              \A l \in 1..3 :
                  LET s == Upline(req[w].user_id, l)
                  IN  (s # NoUser /\ saldo'[s] > saldo[s]) =>
                        /\ \E i \in 1..Len(transaction') :
                              /\ i > Len(transaction)
                              /\ transaction'[i].user_id = s
                              /\ transaction'[i].type = "referral_bonus"
                        /\ \E i \in 1..Len(referralBonus') :
                              /\ i > Len(referralBonus)
                              /\ referralBonus'[i].referrer_id = s]_vars

\* C17: a throw while crediting one level leaves every other level of the
\* up-line credited with its bonus and both of its rows, and the purchase
\* answers success
C17_OtherLevelsStillCredited ==
    [][\A w \in Workers :
          FaultOf(w).at = "level" =>
              /\ resp'.status = 200
              /\ purchase' = purchase
              /\ \A l \in 1..3 :
                    LET s == Upline(req[w].user_id, l)
                        e == BonusAmount(req[w].amount, l)
                    IN  (s # NoUser /\ l # FaultOf(w).level /\ e > 0) =>
                          /\ saldo'[s] = saldo[s] + e
                          /\ \E i \in 1..Len(transaction') :
                                /\ i > Len(transaction)
                                /\ transaction'[i] =
                                     TxRow(s, "referral_bonus", e, saldo'[s])
                          /\ \E i \in 1..Len(referralBonus') :
                                /\ i > Len(referralBonus)
                                /\ referralBonus'[i].referrer_id = s
                                /\ referralBonus'[i].level = l]_vars

\* C17 witness: level 1 threw, levels 2 and 3 are in the answer's details
C17_LevelOneFailedOthersPaid ==
    /\ resp.op = "purchase" /\ resp.status = 200
    /\ resp.errors # <<>>
    /\ resp.errors[1].at = "level" /\ resp.errors[1].level = 1
    /\ Len(resp.results) = 2
    /\ resp.results[1].level = 2
    /\ resp.results[2].level = 3

\* C18: when the distributor fails as a whole (its findMany throws) after the
\* purchase transaction committed, the buyer's debit, the Purchase row and the
\* purchase Transaction row stay and the request answers success
C18_PurchaseSurvivesDistributorFailure ==
    [][\A w \in Workers :
          FaultOf(w).at = "findMany" =>
              LET u == req[w].user_id
              IN  /\ resp'.status = 200
                  /\ saldo' = saldo
                  /\ saldo'[u] = req[w].saldo
                  /\ purchase' = purchase
                  /\ purchase'[Len(purchase')].user_id = u
                  /\ purchase'[Len(purchase')].amount = req[w].amount
                  /\ transaction' = transaction
                  /\ transaction'[Len(transaction')] =
                         TxRow(u, "purchase", -req[w].amount, req[w].saldo)
                  /\ referralBonus' = referralBonus]_vars

\* C18 witness: a purchase answered after findMany threw, nobody credited
C18_AnsweredAfterFindManyThrew ==
    /\ resp.op = "purchase"
    /\ resp.errors = <<FindManyFault>>
    /\ resp.results = <<>>
    /\ purchase # <<>>
    /\ purchase[Len(purchase)].user_id = resp.user_id
    /\ saldo[resp.user_id] = InitialSaldo - resp.amount

\* the purchase ids of a list of engine results or errors
PurchaseIdsIn(list) == {list[i].purchase_id : i \in 1..Len(list)}

\* C16: in one engine run a failure on one due purchase leaves that purchase
\* and its owner's balance unchanged, puts the purchase in errors[] and moves
\* on to the next purchase; when the run answers, every purchase of the due
\* set is in results[] or in errors[]
C16_FailureDoesNotStopTheRun ==
    [][\A w \in Workers :
          /\ (run[w].phase = "loop" /\ Len(run'[w].errors) > Len(run[w].errors))
                => /\ saldo' = saldo
                   /\ purchase' = purchase
                   /\ transaction' = transaction
                   /\ run'[w].phase = "loop"
                   /\ run'[w].due = run[w].due
                   /\ run'[w].pos = run[w].pos + 1
                   /\ run'[w].errors[Len(run'[w].errors)].purchase_id =
                          run[w].due[run[w].pos].id
          /\ (run[w].phase = "loop" /\ run'[w].phase = "idle")
                => /\ PurchaseIdsIn(resp'.results) \cup PurchaseIdsIn(resp'.errors)
                          = {run[w].due[i].id : i \in 1..Len(run[w].due)}
                   /\ Len(resp'.results) + Len(resp'.errors) = Len(run[w].due)
                   /\ resp'.status = 200]_vars

\* C16 witness: a run over two due purchases where the first one failed and
\* the second one was credited afterwards
C16_SecondCreditedAfterFirstFailed ==
    /\ resp.op = "engine"
    /\ Len(resp.errors) = 1 /\ Len(resp.results) = 1
    /\ resp.errors[1].purchase_id = 1
    /\ resp.results[1].purchase_id = 2
    /\ resp.results[1].status = "success"
    /\ purchase[1].payout_count = 0
    /\ purchase[2].payout_count = 1

\* C20: each engine credit of a due purchase with remaining days > 0 raises
\* the owner's balance by daily_return, total_earned by daily_return and
\* payout_count by 1, moves next_payout 24h on from its previous value, sets
\* last_payout to now and appends exactly one Transaction of type
\* daily_payout_auto with amount daily_return and balance_after the new balance
C20_CreditEffects ==
    [][\A w \in Workers :
          (/\ run[w].phase = "loop"
           /\ run[w].pos <= Len(run[w].due)
           /\ run'[w].pos = run[w].pos + 1
           /\ Len(run'[w].errors) = Len(run[w].errors)
           /\ IsDue(purchase[run[w].due[run[w].pos].id], run[w].now)
           /\ RemainingDays(run[w].due[run[w].pos].row, run[w].now) > 0)
          => LET id == run[w].due[run[w].pos].id
                 u == purchase[id].user_id
                 d == purchase[id].daily_return
             IN  /\ saldo' = [saldo EXCEPT ![u] = @ + d]
                 /\ purchase' = [purchase EXCEPT
                        ![id].total_earned = @ + d,
                        ![id].payout_count = @ + 1,
                        ![id].next_payout = @ + 24,
                        ![id].last_payout = run[w].now]
                 /\ transaction' = Append(transaction,
                        [user_id |-> u, type |-> "daily_payout_auto",
                         amount |-> d, balance_after |-> saldo'[u]])]_vars

\* C19: whatever the interleaving of the balance-affecting operations on one
\* account, none is lost: the balance is the starting balance plus the amounts
\* of the Transaction rows written for the account
C19_NoOperationLost ==
    \A u \in Users : saldo[u] = InitialSaldo + SumAmounts(RowsOf(u))

\* the deposit rows of an account, and what approvals have credited to it
DepositsOf(u) == SelectSeq(deposit, LAMBDA d : d.user_id = u)

DepositCreditsOf(u) ==
    SelectSeq(transaction, LAMBDA r : r.user_id = u /\ r.type = "deposit")

\* C21: over any sequence or interleaving of approve and reject requests a
\* deposit is credited at most once: what approvals have credited to an
\* account never exceeds the amounts of the account's deposits
C21_DepositCreditedAtMostOnce ==
    \A u \in Users :
        /\ SumAmounts(DepositCreditsOf(u)) <= SumAmounts(DepositsOf(u))
        /\ saldo[u] - InitialSaldo <= SumAmounts(DepositsOf(u))

\* the income collection requests of a user
CollectOps == {"collect", "collect_one", "collect_all"}

\* C22: after a user has successfully collected income on a calendar day,
\* the next collection request of that user on the same day is rejected and
\* changes no balance, purchase or Transaction row
C22_SecondCollectionRejected ==
    [][(/\ resp.op \in CollectOps
        /\ resp.status = 200
        /\ resp.amount > 0
        /\ SameDay(resp.at, now)
        /\ resp'.id # resp.id
        /\ resp'.op \in CollectOps
        /\ resp'.user_id = resp.user_id)
       => /\ resp'.status = 400
          /\ saldo' = saldo
          /\ purchase' = purchase
          /\ transaction' = transaction]_vars

C25_FailedItemLeftNoTrace ==
    [][(bulk.phase = "loop" /\ Len(bulk'.errors) > Len(bulk.errors))
          => saldo' = saldo /\ transaction' = transaction]_vars

\* C26: every Payout Engine invocation that answers writes the summary
\* SystemLog entry AUTO_PAYOUTS_COMPLETED, also when it finds no due purchase
C26_EveryRunLogsSummary ==
    [][(resp' # resp /\ resp'.op = "engine" /\ resp'.status = 200)
          => systemLog' = Append(systemLog,
                 LogRow("AUTO_PAYOUTS_COMPLETED", NoUser))]_vars

\* C27: when a run over a non-empty due set answers, processed is the
\* number of credits the run committed, total_amount is the sum it credited,
\* and every purchase of the due set is in exactly one of results[] and
\* errors[]
C27_ResultMatchesCredits ==
    [][\A w \in Workers :
          (run[w].phase = "loop" /\ run'[w].phase = "idle") =>
              LET due == run[w].due
                  credits == [i \in 1..Len(due) |->
                      [amount |-> purchase[due[i].id].payout_count
                                      - due[i].row.payout_count]]
                  earned == [i \in 1..Len(due) |->
                      [amount |-> purchase[due[i].id].total_earned
                                      - due[i].row.total_earned]]
              IN  /\ resp'.processed = SumAmounts(credits)
                  /\ resp'.amount = SumAmounts(earned)
                  /\ PurchaseIdsIn(resp'.results) \cup PurchaseIdsIn(resp'.errors)
                         = {due[i].id : i \in 1..Len(due)}
                  /\ PurchaseIdsIn(resp'.results) \cap PurchaseIdsIn(resp'.errors)
                         = {}
                  /\ Len(resp'.results) + Len(resp'.errors) = Len(due)]_vars

\* C27 witness: a run over two due purchases answered with one credit
\* committed and one failed
C27_OneOfTwoCredited ==
    /\ resp.op = "engine"
    /\ resp.processed = 1
    /\ resp.amount = DefaultDailyReturn
    /\ Len(resp.results) = 1 /\ Len(resp.errors) = 1
    /\ \E i, j \in PurchaseIds :
          /\ i # j
          /\ purchase[i].payout_count = 1
          /\ purchase[j].payout_count = 0

\* C28: every step that credits a payout for a purchase moves next_payout
\* exactly 24h on from its previous value
C28_NextPayoutAdvancesFromPrevious ==
    [][\A id \in PurchaseIds :
          purchase'[id].payout_count > purchase[id].payout_count =>
              purchase'[id].next_payout = purchase[id].next_payout + 24]_vars

\* C29: a purchase with cycle_days = N served by a Payout Engine run every
\* 24h has been credited exactly N times when it stops being eligible, and
\* has earned N * daily_return
C29_CreditedCycleDaysTimes ==
    \A id \in PurchaseIds :
        (purchase[id].expiry_date <= now /\ ServedNow) =>
            /\ purchase[id].payout_count = purchase[id].cycle_days
            /\ purchase[id].total_earned =
                   purchase[id].cycle_days * purchase[id].daily_return

\* C30: a purchase is never credited while its status is cancelled or
\* completed, also when the cancellation commits between the engine's read
\* of the due set and its credit of the purchase
C30_NoCreditAfterCancel ==
    [][\A id \in PurchaseIds :
          purchase[id].status \in {"cancelled", "completed"} =>
              /\ purchase'[id].payout_count = purchase[id].payout_count
              /\ purchase'[id].total_earned = purchase[id].total_earned]_vars

\* the purchase_refund rows written for the purchases of account u
RefundsOf(u) ==
    {i \in 1..Len(transaction) :
        transaction[i].user_id = u /\ transaction[i].type = "purchase_refund"}

\* C31: the principal of a purchase is refunded at most once: an account
\* never has more purchase_refund rows than it has purchases, over every
\* sequence and interleaving of admin cancel requests
C31_RefundedAtMostOnce ==
    \A u \in Users :
        Cardinality(RefundsOf(u)) <=
            Cardinality({id \in PurchaseIds : purchase[id].user_id = u})

\* C32: the amount of a withdrawal is refunded at most once and never after
\* its approval: a withdrawal_refund row is written only by a rejection of a
\* withdrawal that is still pending
C32_RefundOnlyWhilePending ==
    [][(Len(transaction') > Len(transaction)
          /\ transaction'[Len(transaction')].type = "withdrawal_refund") =>
              /\ resp'.op = "withdrawal_reject"
              /\ withdrawal[resp'.amount].status = "pending"]_vars

\* C33: when the admin deposit approval reports an error to the caller, the
\* deposit was not credited: the balances, the deposit rows and the
\* Transaction rows are the ones from before the request
C33_ApprovalErrorMeansNoCredit ==
    [][(resp' # resp /\ resp'.op = "approve" /\ resp'.status >= 400) =>
          UNCHANGED <<saldo, deposit, transaction>>]_vars

\* the purchase Transaction rows of account u
PurchaseRowsOf(u) ==
    {i \in 1..Len(transaction) :
        transaction[i].user_id = u /\ transaction[i].type = "purchase"}

\* C34: when the purchase request reports an internal error, the purchase
\* unit was rolled back; stated for the first request served: the buyer's
\* balance is the initial one and there is no Purchase row and no purchase
\* Transaction row
C34_InternalErrorMeansRolledBack ==
    (/\ AllIdle
     /\ arrival.id = 1
     /\ resp.id = 1
     /\ resp.op = "purchase"
     /\ resp.status = 500) =>
        /\ saldo[resp.user_id] = InitialSaldo
        /\ purchase = <<>>
        /\ PurchaseRowsOf(resp.user_id) = {}

\* C35: a purchase request never increases the buyer's balance, whatever
\* amount passes validation: the step that writes the purchase Transaction
\* row leaves the buyer's balance at or below its value, and the row's
\* amount is <= 0
C35_PurchaseNeverCredits ==
    [][(Len(transaction') > Len(transaction)
          /\ transaction'[Len(transaction) + 1].type = "purchase") =>
              LET row == transaction'[Len(transaction) + 1]
              IN  /\ row.amount <= 0
                  /\ saldo'[row.user_id] <= saldo[row.user_id]]_vars

\* C36: every purchase satisfies total_earned = payout_count * daily_return,
\* whatever sequence of Payout Engine credits and manual or simulated
\* collections has been applied to it
C36_EarnedIsCountTimesReturn ==
    \A id \in PurchaseIds :
        purchase[id].total_earned =
            purchase[id].payout_count * purchase[id].daily_return

\* a purchase credited by the engine and by a collection
C36_CreditedByEngineAndCollection ==
    \E id \in PurchaseIds :
        /\ purchase[id].payout_count >= 2
        /\ purchase[id].daily_return # DefaultDailyReturn
        /\ \E i, j \in 1..Len(transaction) :
              /\ transaction[i].user_id = purchase[id].user_id
              /\ transaction[j].user_id = purchase[id].user_id
              /\ transaction[i].type = "daily_payout_auto"
              /\ transaction[j].type = "product_income"

\* the levels at which account u has a ReferralLevel row
LevelsOf(u) == {r.level : r \in {x \in referralLevel : x.user_id = u}}

\* C37: the ReferralLevel rows of each user form a gap-free prefix of the
\* levels: at most one row per level in {1, 2, 3}, and a row at level k > 1
\* only with a row at level k - 1, after partial failures during a
\* registration and after admin deletions of other users
C37_LevelsFormPrefix ==
    \A u \in Accounts :
        /\ LevelsOf(u) \subseteq 1..3
        /\ \A r, q \in referralLevel :
              (r.user_id = u /\ q.user_id = u /\ r.level = q.level) => r = q
        /\ \A k \in LevelsOf(u) : k > 1 => k - 1 \in LevelsOf(u)

\* C38: the bonus result returned by the Referral Bonus Distributor is
\* faithful: its total, the sum of the amounts of its details, is the sum
\* of what the distribution added to the balances of the sponsors, also
\* when a store failure hits a level after its balance credit
C38_BonusResultIsFaithful ==
    [][(resp' # resp /\ resp'.op = "purchase" /\ resp'.status = 200) =>
          SumAmounts(resp'.results) =
              SumAmounts([u \in 1..Cardinality(Accounts) |->
                             [amount |-> saldo'[u] - saldo[u]]])]_vars

\* C39: a Payout Engine credit for one purchase changes only the balance of
\* the account that owns it and the fields of that purchase: the balances
\* of all other accounts and all other purchases, deposits and withdrawals
\* are left as they were
C39_CreditChangesOnlyItsPurchase ==
    [][(Len(transaction') = Len(transaction) + 1
          /\ transaction'[Len(transaction')].type = "daily_payout_auto") =>
              \E id \in PurchaseIds :
                  /\ purchase[id].user_id = transaction'[Len(transaction')].user_id
                  /\ purchase'[id].payout_count = purchase[id].payout_count + 1
                  /\ Len(purchase') = Len(purchase)
                  /\ \A j \in PurchaseIds \ {id} : purchase'[j] = purchase[j]
                  /\ \A u \in Accounts \ {purchase[id].user_id} :
                         saldo'[u] = saldo[u]
                  /\ deposit' = deposit
                  /\ withdrawal' = withdrawal]_vars

\* the engine has credited the purchase of one account and not yet the
\* purchase of another
C39_OneOfTwoOwnersCredited ==
    /\ transaction # <<>>
    /\ transaction[Len(transaction)].type = "daily_payout_auto"
    /\ \E id, j \in PurchaseIds :
          /\ purchase[id].user_id # purchase[j].user_id
          /\ purchase[id].payout_count = 1
          /\ purchase[j].payout_count = 0

====
